---- MODULE Spec2Model ----
(***************************************************************************)
(* A model of tushare_plus/client.py (class TushareAPI): the sliding-      *)
(* window rate limiter (_respect_rate_limit), the retrying request         *)
(* executor (_make_request) and the paginator (get_data,                   *)
(* _get_data_concurrent).                                                  *)
(*                                                                         *)
(* Time is counted in whole seconds.  Python dictionaries are functions    *)
(* whose DOMAIN is the set of keys present; Python lists are sequences.    *)
(***************************************************************************)
EXTENDS Integers, Sequences, FiniteSets, TLC

(***************************************************************************)
(* Bounds of the model.                                                    *)
(***************************************************************************)
MaxTime == 125
MaxCalls == 4
MaxRate == 2
MaxLate == 1
MaxRetries == 1
MaxRows == 3
MaxCap == 2
MaxLimit == 3
MaxIssued == 3
MaxPlan == 5
MaxOps == 3
MaxProbes == 2

(***************************************************************************)
(* Program constants.                                                      *)
(***************************************************************************)
Window == 60
DefaultRateLimit == 60
retry_delay == 1
max_empty_results == 2
DefaultMaxPages == 1000
DefaultCap == 5000
ProbeUnit == 1000

Endpoints == {"daily", "index_weight"}
Workers == {"w1", "w2"}
Flows == {"main"} \cup Workers
None == -1
TickSteps == {30, 59}

VARIABLES
    clock,               \* time.time(), in seconds
    _api_info_cache,     \* self._api_info_cache: api_name -> limits
    _api_call_history,   \* self._api_call_history: api_name -> timestamps
    has_call_history,    \* hasattr(self, '_api_call_history'): __init__ does not set it
    admitted,            \* history variable: the timestamps recorded by _respect_rate_limit
    rl,                  \* per worker thread: its position in _respect_rate_limit
    max_retries,         \* self.max_retries
    enable_rate_limit,   \* self.enable_rate_limit
    total_rows,          \* the server: how many rows the queried endpoint holds
    srv,                 \* history variable: what the server has answered so far
    req,                 \* per flow: the _make_request call it is running
    call,                \* the arguments of the get_data call
    gd,                  \* get_data: its position and local variables
    cc,                  \* _get_data_concurrent: its position and local variables
    ret,                 \* what get_data returned or raised
    issued,              \* history variable: the page requests made, in order
    seen,                \* history variable: the page outcomes get_data has handled
    store,               \* the CSV file of self.limit_detector
    op,                  \* the get_api_info, clear_api_limits or force_redetect call that runs
    used                 \* history variable: what has been invoked so far

rateVars == <<clock, _api_info_cache, _api_call_history, has_call_history, admitted, rl>>

configVars == <<max_retries, enable_rate_limit, total_rows>>

reqVars == <<srv, req>>

fetchVars == <<call, gd, cc, ret, issued, seen>>

infoVars == <<store, op>>

vars == <<rateVars, configVars, reqVars, fetchVars, infoVars, used>>

(***************************************************************************)
(* Helpers on sequences and dictionaries.                                  *)
(***************************************************************************)
SeqMin(s) == CHOOSE m \in {s[i] : i \in 1..Len(s)} : \A j \in 1..Len(s) : m <= s[j]

DictGet(d, k, default) == IF k \in DOMAIN d THEN d[k] ELSE default

DictSet(d, k, v) == [x \in (DOMAIN d) \cup {k} |-> IF x = k THEN v ELSE d[x]]

Info(cap, rate) == [limit_per_request |-> cap, rate_limit |-> rate]

(***************************************************************************)
(* _respect_rate_limit, piece by piece.                                    *)
(***************************************************************************)
\* A mutant of RateLimitOf: one rate limit for all endpoints, the lowest.
RateLimitShared(cache, api_name) ==
    IF DOMAIN cache = {} THEN DefaultRateLimit
    ELSE cache[CHOOSE x \in DOMAIN cache :
                   \A y \in DOMAIN cache : cache[x].rate_limit <= cache[y].rate_limit
              ].rate_limit

\* client.py 527-528: the endpoint's rate limit, 60 when it is not cached.
RateLimitOf(cache, api_name) ==
    DictGet(cache, api_name, [rate_limit |-> DefaultRateLimit]).rate_limit

\* client.py 545-546: drop the entries that are 60 seconds old or older.
Prune(h, now) == SelectSeq(h, LAMBDA t : now - t < Window)

\* A mutant of WindowFull: an off-by-one in the comparison.
WindowFullOffByOne(h, rate_limit) == Len(h) > rate_limit

\* client.py 549: the window already holds rate_limit calls.
WindowFull(h, rate_limit) == Len(h) >= rate_limit

\* A mutant of WaitTime: a full window, whatever the age of the oldest entry.
WaitTimeFullWindow(h, now) == Window

\* client.py 551-552: the time until the oldest entry leaves the window.
WaitTime(h, now) == Window - (now - SeqMin(h))

\* client.py 521-561 run by one flow without interruption, at time now.
\* late is how much longer than asked time.sleep slept.  The result is the
\* new call history of api_name, the time at return and the time slept;
\* recorded is FALSE when rate_limit is 0 and nothing was touched.
Admission(cache, history, api_name, now, late) ==
    LET rate_limit == RateLimitOf(cache, api_name)
        h == Prune(DictGet(history, api_name, <<>>), now)
        wait_time == IF WindowFull(h, rate_limit) THEN WaitTime(h, now) ELSE 0
        slept == IF wait_time > 0 THEN wait_time + late ELSE 0
    IN  IF rate_limit = 0
        THEN [recorded |-> FALSE, history |-> history, now |-> now, slept |-> 0]
        ELSE [recorded |-> TRUE,
              history |-> DictSet(history, api_name, Append(h, now + slept)),
              now |-> now + slept,
              slept |-> slept]

\* Whether an Admission at this time would sleep.
WouldSleep(cache, history, api_name, now) ==
    LET rate_limit == RateLimitOf(cache, api_name)
        h == Prune(DictGet(history, api_name, <<>>), now)
    IN  rate_limit # 0 /\ WindowFull(h, rate_limit) /\ WaitTime(h, now) > 0

Log(api_name) == DictGet(admitted, api_name, <<>>)

TotalAdmitted == LET n[S \in SUBSET Endpoints] ==
                         IF S = {} THEN 0
                         ELSE LET e == CHOOSE x \in S : TRUE
                              IN Len(Log(e)) + n[S \ {e}]
                 IN n[Endpoints]

IdleWorker == [pc |-> "idle", api_name |-> "", rate_limit |-> 0, now |-> 0,
               pruned |-> <<>>, wake |-> 0, exc |-> "none"]

(***************************************************************************)
(* Time passes.                                                            *)
(***************************************************************************)
Tick(d) ==
    /\ clock + d <= MaxTime
    /\ clock' = clock + d
    /\ UNCHANGED <<_api_info_cache, _api_call_history, has_call_history, admitted, rl>>
    /\ UNCHANGED <<configVars, infoVars, used, reqVars, fetchVars>>

(***************************************************************************)
(* One flow calls _respect_rate_limit(api_name): the whole call is one     *)
(* step, the sleep included.                                               *)
(***************************************************************************)
_respect_rate_limit(api_name) ==
    /\ TotalAdmitted < MaxCalls
    /\ \E late \in 0..MaxLate :
        LET r == Admission(_api_info_cache, _api_call_history, api_name, clock, late)
        IN  /\ late > 0 => r.slept > 0
            /\ r.now <= MaxTime
            /\ r.recorded
            /\ clock' = r.now
            /\ _api_call_history' = r.history
            /\ has_call_history' = TRUE
            /\ admitted' = DictSet(admitted, api_name, Append(Log(api_name), r.now))
    /\ used' = [used EXCEPT !.admit = TRUE]
    /\ UNCHANGED <<_api_info_cache, rl, configVars, infoVars, reqVars, fetchVars>>

\* client.py 530-532: nothing happens for an endpoint whose rate limit is 0.
_respect_rate_limit_unlimited(api_name) ==
    /\ ~Admission(_api_info_cache, _api_call_history, api_name, clock, 0).recorded
    /\ used' = [used EXCEPT !.admit = TRUE]
    /\ UNCHANGED <<rateVars, configVars, infoVars, reqVars, fetchVars>>


(***************************************************************************)
(* The server behind Transport.  It holds total_rows rows, numbered        *)
(* 1..total_rows in server order; a row is modelled by its number.  To a   *)
(* request it answers with rows starting at the requested offset, with a   *)
(* has_more flag (or none), or with an error.  It need not be honest: it   *)
(* may return fewer rows than it has, one more than asked for, and any     *)
(* has_more.                                                               *)
(***************************************************************************)
\* The server has answered nothing yet.
InitSrv == [honest |-> TRUE, over |-> FALSE]

Min2(a, b) == IF a <= b THEN a ELSE b

Available(offset) == IF total_rows > offset THEN total_rows - offset ELSE 0

HonestCount(params) ==
    IF params.limit = None THEN Available(params.offset)
    ELSE Min2(params.limit, Available(params.offset))

HonestMore(params) ==
    IF params.limit # None /\ params.offset + params.limit < total_rows
    THEN "true" ELSE "false"

Counts(params) ==
    0..Min2(Available(params.offset),
            IF params.limit = None THEN Available(params.offset) ELSE params.limit + 1)

Ok(count, has_more) ==
    [kind |-> "ok", code |-> 0, marker |-> FALSE, count |-> count, has_more |-> has_more]

\* result["code"] # 0; marker: result["msg"] contains "offset" or "超出范围".
AppError(code, marker) ==
    [kind |-> "app", code |-> code, marker |-> marker, count |-> 0, has_more |-> "absent"]

\* urlopen or json.loads raised; marker: the exception text contains "offset".
TransportError(marker) ==
    [kind |-> "transport", code |-> 0, marker |-> marker, count |-> 0, has_more |-> "absent"]

\* client.py 513-518
retry_error_codes == {-1, 40203, 500, 503}

\* The status codes the model's server answers with: the retryable ones and
\* 2002, which is not.
ErrorCodes == retry_error_codes \cup {2002}

Responses(params) ==
    {Ok(k, hm) : k \in Counts(params), hm \in {"true", "false", "absent"}}
    \cup {AppError(c, m) : c \in ErrorCodes, m \in BOOLEAN}
    \cup {TransportError(m) : m \in BOOLEAN}

IsHonest(params, resp) ==
    /\ resp.kind = "ok"
    /\ resp.count = HonestCount(params)
    /\ resp.has_more = HonestMore(params)

Rows(offset, count) == [i \in 1..count |-> offset + i]

\* data["fields"] of a successful response: the requested fields, or all
\* fields of the endpoint when none were requested.
ServerFields(field_str) ==
    IF field_str = "" THEN <<"ts_code", "trade_date">> ELSE <<field_str>>

(***************************************************************************)
(* _make_request.  What a call returns or raises:                          *)
(*   kind "ok":    result["data"], with fields, items and has_more         *)
(*   kind "raise": an exception; marker tells whether its text contains    *)
(*                 an offset-range marker.                                 *)
(***************************************************************************)
NoOutcome == [kind |-> "none", fields |-> <<>>, items |-> <<>>, has_more |-> "absent",
              marker |-> FALSE]

Data(fields, items, has_more) ==
    [kind |-> "ok", fields |-> fields, items |-> items, has_more |-> has_more,
     marker |-> FALSE]

Raised(marker) ==
    [kind |-> "raise", fields |-> <<>>, items |-> <<>>, has_more |-> "absent",
     marker |-> marker]

NoResponse == [kind |-> "none", retryable |-> FALSE, marker |-> FALSE]

\* A flow that runs no request.  stack holds the frames of the recursive
\* _make_request calls, the running one last.
IdleFlow == [pc |-> "idle", api_name |-> "", params |-> [offset |-> 0, limit |-> None],
             fields |-> "", stack |-> <<>>, sends |-> 0, sleeps |-> 0, admissions |-> 0,
             wake |-> 0, last |-> NoResponse, outcome |-> NoOutcome]

\* self._make_request(api_name, params, fields): the frame with retry_count 0.
StartRequest(api_name, params, fields) ==
    [IdleFlow EXCEPT !.pc = "run", !.api_name = api_name, !.params = params,
                     !.fields = fields,
                     !.stack = <<[retry_count |-> 0, at |-> "run"]>>]

\* A mutant of _should_retry: every status code is retried.
_should_retry_any(error_code) == TRUE

\* client.py 509-519
_should_retry(error_code) == error_code \in retry_error_codes

\* The frame on top of the stack waits in a recursive call it made at `at`
\* ("try": line 499, inside the try block; "except": line 506, inside the
\* handler) and a new frame with the next retry_count runs.
Recurse(stack, at) ==
    LET n == Len(stack)
    IN  Append([stack EXCEPT ![n].at = at],
               [retry_count |-> stack[n].retry_count + 1, at |-> "run"])

RECURSIVE HandleException(_)
RECURSIVE Propagate(_)

\* client.py 502-507: an exception reached the except clause of the frame on
\* top of the stack.  Below max_retries the frame sleeps and calls
\* _make_request again; otherwise it raises "Request failed after ...".
HandleException(stack) ==
    LET n == Len(stack)
    IN  IF stack[n].retry_count < max_retries
        THEN [next |-> "retry", stack |-> Recurse(stack, "except")]
        ELSE Propagate(SubSeq(stack, 1, n - 1))

\* An exception leaves a frame: the caller's frame, when it made the call
\* inside its try block (line 499), catches it at line 502; a caller that
\* made the call in its handler (line 506) lets it pass.
Propagate(stack) ==
    LET n == Len(stack)
    IN  IF n = 0 THEN [next |-> "raise", stack |-> <<>>]
        ELSE IF stack[n].at = "try" THEN HandleException(stack)
        ELSE Propagate(SubSeq(stack, 1, n - 1))

\* client.py 490-507: what the running frame does with the response.
AfterResponse(stack, resp) ==
    LET n == Len(stack)
    IN  IF resp.kind = "ok" THEN [next |-> "return", stack |-> <<>>]
        ELSE IF /\ resp.kind = "app"
                /\ stack[n].retry_count < max_retries
                /\ _should_retry(resp.code)
             THEN [next |-> "retry", stack |-> Recurse(stack, "try")]
             ELSE HandleException(stack)

\* A mutant of Limited: the configuration is not looked at.
LimitedWhenCached(api_name) == api_name \in DOMAIN _api_info_cache

\* A mutant of Limited: the cache is not looked at.
LimitedWhenEnabled(api_name) == enable_rate_limit

\* client.py 475: whether this attempt goes through the rate limiter.
Limited(api_name) == enable_rate_limit /\ api_name \in DOMAIN _api_info_cache

\* One frame of _make_request on flow f (client.py 471-507), while no other
\* thread of the client runs: the admission when the endpoint is cached and
\* rate limiting is on, one send, the server's response resp, and what
\* follows from it: the return of the data through all frames, the sleep
\* before the next frame, or the exception.
_make_request(f, resp, late) ==
    LET r == req[f]
        adm == IF Limited(r.api_name)
               THEN Admission(_api_info_cache, _api_call_history, r.api_name, clock, late)
               ELSE [recorded |-> FALSE, history |-> _api_call_history,
                     now |-> clock, slept |-> 0]
        after == AfterResponse(r.stack, resp)
    IN  /\ r.pc = "run"
        /\ resp \in Responses(r.params)
        /\ late > 0 => adm.slept > 0
        /\ _api_call_history' = adm.history
        /\ has_call_history' = (has_call_history \/ adm.recorded)
        /\ admitted' = IF adm.recorded
                       THEN DictSet(admitted, r.api_name, Append(Log(r.api_name), adm.now))
                       ELSE admitted
        /\ clock' = IF after.next = "retry" THEN adm.now + retry_delay ELSE adm.now
        /\ srv' = [honest |-> srv.honest /\ IsHonest(r.params, resp),
                   over |-> srv.over \/ (resp.kind = "ok" /\ r.params.limit # None
                                         /\ resp.count > r.params.limit)]
        /\ req' = [req EXCEPT ![f] = [r EXCEPT
                !.pc = IF after.next = "retry" THEN "run" ELSE "done",
                !.stack = after.stack,
                !.sends = @ + 1,
                !.sleeps = IF after.next = "retry" THEN @ + 1 ELSE @,
                !.admissions = IF Limited(r.api_name) THEN @ + 1 ELSE @,
                !.last = [kind |-> resp.kind,
                          retryable |-> resp.kind = "app" /\ _should_retry(resp.code),
                          marker |-> resp.marker],
                !.outcome =
                    IF after.next = "return"
                    THEN Data(ServerFields(r.fields), Rows(r.params.offset, resp.count),
                              resp.has_more)
                    ELSE IF after.next = "raise" THEN Raised(resp.marker)
                    ELSE NoOutcome]]
        /\ used' = [used EXCEPT !.admit = @ \/ Limited(r.api_name)]
        /\ UNCHANGED <<_api_info_cache, rl, configVars, infoVars, fetchVars>>


(***************************************************************************)
(* Worker threads of one thread pool call _respect_rate_limit at the same  *)
(* time.  The method takes no lock, so a thread can be preempted between   *)
(* any two of its reads and writes of self._api_call_history; each step    *)
(* below is one such read or write.  A read of an entry that is not in the *)
(* dictionary raises KeyError.                                             *)
(***************************************************************************)
Busy == {w \in Workers : rl[w].pc # "idle"}

\* client.py 527-535: the locals of a call that goes on after line 532, and
\* where it goes on: at line 536 when the client has no call history yet,
\* at line 538 when it has.
RlStart(api_name) ==
    [IdleWorker EXCEPT !.pc = IF has_call_history THEN "key" ELSE "attr",
                       !.api_name = api_name,
                       !.rate_limit = RateLimitOf(_api_info_cache, api_name)]

\* An exception leaves _respect_rate_limit.  When a frame of _make_request
\* made the call (client.py 476, outside its try block), the exception
\* leaves that frame too and goes to the frames below; r is the request.
Thrown(r) ==
    LET after == Propagate(SubSeq(r.stack, 1, Len(r.stack) - 1))
    IN  IF after.next = "retry"
        THEN [r EXCEPT !.pc = "sleep", !.stack = after.stack, !.sleeps = @ + 1,
                       !.wake = clock + retry_delay]
        ELSE [r EXCEPT !.pc = "done", !.stack = <<>>, !.outcome = Raised(FALSE)]

\* The call of worker w ends with the exception exc.
RlRaise(w, exc) ==
    /\ rl' = [rl EXCEPT ![w] = IF req[w].pc = "admit" THEN IdleWorker
                               ELSE [@ EXCEPT !.pc = "error", !.exc = exc]]
    /\ req' = [req EXCEPT ![w] = IF @.pc = "admit" THEN Thrown(@) ELSE @]

\* client.py 527-535: a worker calls _respect_rate_limit for a cached
\* endpoint; the method reads the rate limit, returns at once when it is 0,
\* and looks whether the client has a call history.
RlBegin(w, api_name) ==
    /\ rl[w].pc = "idle"
    /\ api_name \in DOMAIN _api_info_cache
    /\ TotalAdmitted + Cardinality(Busy) < MaxCalls
    /\ RateLimitOf(_api_info_cache, api_name) # 0
    /\ rl' = [rl EXCEPT ![w] = RlStart(api_name)]
    /\ used' = [used EXCEPT !.admit = TRUE]
    /\ UNCHANGED <<clock, _api_info_cache, _api_call_history, has_call_history, admitted>>
    /\ UNCHANGED <<configVars, infoVars, reqVars, fetchVars>>

\* client.py 536: the worker saw no call history at line 535 and stores an
\* empty dictionary, whatever the attribute holds by now.
RlInitAttr(w) ==
    /\ rl[w].pc = "attr"
    /\ _api_call_history' = <<>>
    /\ has_call_history' = TRUE
    /\ rl' = [rl EXCEPT ![w].pc = "key"]
    /\ UNCHANGED <<clock, _api_info_cache, admitted>>
    /\ UNCHANGED <<configVars, infoVars, used, reqVars, fetchVars>>

\* client.py 538: look whether the endpoint has an entry in the dictionary.
RlHasKey(w) ==
    /\ rl[w].pc = "key"
    /\ rl' = [rl EXCEPT ![w].pc =
                IF rl[w].api_name \in DOMAIN _api_call_history THEN "prune" ELSE "init"]
    /\ UNCHANGED <<clock, _api_info_cache, _api_call_history, has_call_history, admitted>>
    /\ UNCHANGED <<configVars, infoVars, used, reqVars, fetchVars>>

\* client.py 539: the worker saw no entry at line 538 and stores an empty
\* list.
RlInitHistory(w) ==
    /\ rl[w].pc = "init"
    /\ _api_call_history' = DictSet(_api_call_history, rl[w].api_name, <<>>)
    /\ rl' = [rl EXCEPT ![w].pc = "prune"]
    /\ UNCHANGED <<clock, _api_info_cache, has_call_history, admitted>>
    /\ UNCHANGED <<configVars, infoVars, used, reqVars, fetchVars>>

\* client.py 542 and the right-hand side of 545-546: read the time and build
\* the pruned list.
RlPruneRead(w) ==
    /\ rl[w].pc = "prune"
    /\ IF rl[w].api_name \in DOMAIN _api_call_history
       THEN /\ rl' = [rl EXCEPT
                        ![w].pc = "store",
                        ![w].now = clock,
                        ![w].pruned = Prune(_api_call_history[rl[w].api_name], clock)]
            /\ req' = req
       ELSE RlRaise(w, "KeyError")
    /\ UNCHANGED <<clock, _api_info_cache, _api_call_history, has_call_history, admitted>>
    /\ UNCHANGED <<configVars, infoVars, used, srv, fetchVars>>

\* client.py 545: store the pruned list.
RlPruneWrite(w) ==
    /\ rl[w].pc = "store"
    /\ _api_call_history' = DictSet(_api_call_history, rl[w].api_name, rl[w].pruned)
    /\ rl' = [rl EXCEPT ![w].pc = "check"]
    /\ UNCHANGED <<clock, _api_info_cache, has_call_history, admitted>>
    /\ UNCHANGED <<configVars, infoVars, used, reqVars, fetchVars>>

\* client.py 549: compare the length of the history with the rate limit.
RlCheck(w) ==
    /\ rl[w].pc = "check"
    /\ IF rl[w].api_name \in DOMAIN _api_call_history
       THEN /\ rl' = [rl EXCEPT ![w].pc =
                        IF WindowFull(_api_call_history[rl[w].api_name], rl[w].rate_limit)
                        THEN "oldest" ELSE "record"]
            /\ req' = req
       ELSE RlRaise(w, "KeyError")
    /\ UNCHANGED <<clock, _api_info_cache, _api_call_history, has_call_history, admitted>>
    /\ UNCHANGED <<configVars, infoVars, used, srv, fetchVars>>

\* client.py 551-556: min() of the history (a ValueError when another thread
\* has emptied it meanwhile), the wait time, and the start of the sleep.
RlOldest(w) ==
    /\ rl[w].pc = "oldest"
    /\ IF rl[w].api_name \notin DOMAIN _api_call_history
       THEN RlRaise(w, "KeyError")
       ELSE LET h == _api_call_history[rl[w].api_name]
            IN  IF h = <<>> THEN RlRaise(w, "ValueError")
                ELSE /\ rl' = [rl EXCEPT ![w] =
                                 IF WaitTime(h, rl[w].now) > 0
                                 THEN [@ EXCEPT !.pc = "sleep",
                                                !.wake = clock + WaitTime(h, rl[w].now)]
                                 ELSE [@ EXCEPT !.pc = "record"]]
                     /\ req' = req
    /\ UNCHANGED <<clock, _api_info_cache, _api_call_history, has_call_history, admitted>>
    /\ UNCHANGED <<configVars, infoVars, used, srv, fetchVars>>

\* client.py 556-558: the sleep is over; read the time again.
RlWake(w) ==
    /\ rl[w].pc = "sleep"
    /\ clock >= rl[w].wake
    /\ rl' = [rl EXCEPT ![w].pc = "record", ![w].now = clock]
    /\ UNCHANGED <<clock, _api_info_cache, _api_call_history, has_call_history, admitted>>
    /\ UNCHANGED <<configVars, infoVars, used, reqVars, fetchVars>>

\* client.py 561: append the timestamp to whatever list the dictionary holds
\* now, and return; the frame of _make_request that made the call goes on
\* to its send.
RlRecord(w) ==
    /\ rl[w].pc = "record"
    /\ IF rl[w].api_name \in DOMAIN _api_call_history
       THEN /\ _api_call_history' =
                   DictSet(_api_call_history, rl[w].api_name,
                           Append(_api_call_history[rl[w].api_name], rl[w].now))
            /\ admitted' = DictSet(admitted, rl[w].api_name,
                                   Append(Log(rl[w].api_name), rl[w].now))
            /\ rl' = [rl EXCEPT ![w] = IdleWorker]
            /\ req' = [req EXCEPT ![w].pc = IF @ = "admit" THEN "send" ELSE @]
       ELSE /\ RlRaise(w, "KeyError")
            /\ UNCHANGED <<_api_call_history, admitted>>
    /\ UNCHANGED <<clock, _api_info_cache, has_call_history>>
    /\ UNCHANGED <<configVars, infoVars, used, srv, fetchVars>>

(***************************************************************************)
(* _make_request on a worker thread of the pool (fetch_page, client.py     *)
(* 686-696).  The workers of a batch run at the same time, so a worker's   *)
(* call is not one step: its call of _respect_rate_limit goes through the  *)
(* steps above, its send is a step, and its sleep before a retry ends when *)
(* the time has come.                                                      *)
(***************************************************************************)
\* The flow's request has not ended.
Running(f) == req[f].pc \in {"run", "admit", "send", "sleep"}

\* The frame on top is at its first line: the call has just been made, or
\* the sleep of the frame below (client.py 498, 505) is over.
AtTop(r) == r.pc = "run" \/ (r.pc = "sleep" /\ clock >= r.wake)

\* client.py 475-476 with 527-535: the frame of worker w calls
\* _respect_rate_limit for an endpoint whose rate limit is not 0.
_make_request_admit(w) ==
    /\ AtTop(req[w])
    /\ rl[w].pc = "idle"
    /\ Limited(req[w].api_name)
    /\ RateLimitOf(_api_info_cache, req[w].api_name) # 0
    /\ rl' = [rl EXCEPT ![w] = RlStart(req[w].api_name)]
    /\ req' = [req EXCEPT ![w].pc = "admit", ![w].admissions = @ + 1]
    /\ used' = [used EXCEPT !.admit = TRUE]
    /\ UNCHANGED <<clock, _api_info_cache, _api_call_history, has_call_history, admitted>>
    /\ UNCHANGED <<configVars, infoVars, srv, fetchVars>>

\* client.py 478-507 on worker w, after the call of _respect_rate_limit (or
\* from line 475 on, when that call is not made or returns at line 532):
\* one send, the server's response resp, and what follows from it: the
\* return of the data through all frames, the start of the sleep before the
\* next frame, or the exception.
_make_request_send(w, resp) ==
    LET r == req[w]
        unlimited == ~Limited(r.api_name)
                     \/ RateLimitOf(_api_info_cache, r.api_name) = 0
        after == AfterResponse(r.stack, resp)
    IN  /\ r.pc = "send" \/ (AtTop(r) /\ unlimited)
        /\ resp \in Responses(r.params)
        /\ srv' = [honest |-> srv.honest /\ IsHonest(r.params, resp),
                   over |-> srv.over \/ (resp.kind = "ok" /\ r.params.limit # None
                                         /\ resp.count > r.params.limit)]
        /\ req' = [req EXCEPT ![w] = [r EXCEPT
                !.pc = IF after.next = "retry" THEN "sleep" ELSE "done",
                !.wake = IF after.next = "retry" THEN clock + retry_delay ELSE @,
                !.stack = after.stack,
                !.sends = @ + 1,
                !.sleeps = IF after.next = "retry" THEN @ + 1 ELSE @,
                !.admissions = IF r.pc # "send" /\ Limited(r.api_name) THEN @ + 1 ELSE @,
                !.last = [kind |-> resp.kind,
                          retryable |-> resp.kind = "app" /\ _should_retry(resp.code),
                          marker |-> resp.marker],
                !.outcome =
                    IF after.next = "return"
                    THEN Data(ServerFields(r.fields), Rows(r.params.offset, resp.count),
                              resp.has_more)
                    ELSE IF after.next = "raise" THEN Raised(resp.marker)
                    ELSE NoOutcome]]
        /\ used' = [used EXCEPT !.admit = @ \/ (r.pc # "send" /\ Limited(r.api_name))]
        /\ UNCHANGED <<rateVars, configVars, infoVars, fetchVars>>

\* The times at which the sleeping workers are to wake up: from the wait of
\* _respect_rate_limit (client.py 556) and from the sleep before a retry
\* (client.py 498, 505).
Wakes ==
    {rl[w].wake : w \in {x \in Workers : rl[x].pc = "sleep"}}
    \cup {req[w].wake : w \in {x \in Workers : req[x].pc = "sleep"}}

\* time.sleep: workers sleep, and the time goes on to the next moment at
\* which one of them is to wake up.
time_sleep ==
    /\ \E t \in Wakes : t > clock
    /\ clock' = CHOOSE t \in Wakes : t > clock /\ \A u \in Wakes : u > clock => t <= u
    /\ clock' <= MaxTime
    /\ UNCHANGED <<_api_info_cache, _api_call_history, has_call_history, admitted, rl>>
    /\ UNCHANGED <<configVars, infoVars, used, reqVars, fetchVars>>

(***************************************************************************)
(* get_data.                                                               *)
(*                                                                         *)
(* call holds the arguments: api_name, fields, auto_paging, concurrent,    *)
(* max_pages and the entries offset and limit of **params (limit None when *)
(* it was not given; offset 0 when it was not given).  ret is what the     *)
(* caller gets: a DataFrame (kind "frame", with its rows and columns),     *)
(* the value None (kind "None") or an exception (kind "raise").            *)
(***************************************************************************)
NoCall == [api_name |-> "", fields |-> "", auto_paging |-> TRUE, concurrent |-> FALSE,
           max_pages |-> None, offset |-> 0, limit |-> None]

NoReturn == [kind |-> "none", rows |-> <<>>, columns |-> <<>>, marker |-> FALSE]

\* pd.DataFrame(rows, columns=columns)
DataFrame(rows, columns) ==
    [kind |-> "frame", rows |-> rows, columns |-> columns, marker |-> FALSE]

\* A function that ends without a return statement returns None.
ReturnsNone == [kind |-> "None", rows |-> <<>>, columns |-> <<>>, marker |-> FALSE]

Raises(outcome) ==
    [kind |-> "raise", rows |-> <<>>, columns |-> <<>>, marker |-> outcome.marker]

GdOff == [pc |-> "off", limit_per_request |-> 0, offset |-> 0, total_fetched |-> 0,
          all_data |-> <<>>, fields_list |-> <<>>]

CcOff == [pc |-> "off", i |-> 0, pending |-> {}, empty_results_count |-> 0,
          fields |-> <<>>, all_data |-> <<>>]

NoneSeen == [last |-> NoOutcome, hard |-> FALSE, soft |-> FALSE, stop |-> FALSE,
             no_more |-> FALSE, empty_run |-> 0, two_empty |-> FALSE]

\* The page of this outcome has no rows: a response without items, or the
\* error that fetch_page turns into an empty page.
ZeroRows(outcome) ==
    \/ outcome.kind = "ok" /\ outcome.items = <<>>
    \/ outcome.kind = "raise" /\ outcome.marker

\* The paginator takes the outcome of a page request.
See(outcome) ==
    [last |-> outcome,
     hard |-> seen.hard \/ (outcome.kind = "raise" /\ ~outcome.marker),
     soft |-> seen.soft \/ (outcome.kind = "raise" /\ outcome.marker),
     stop |-> seen.stop \/ (outcome.kind = "ok" /\ outcome.has_more # "true"),
     no_more |-> seen.no_more \/ (outcome.kind = "ok" /\ outcome.has_more = "false"),
     empty_run |-> IF ZeroRows(outcome) THEN Min2(seen.empty_run + 1, max_empty_results)
                   ELSE 0,
     two_empty |-> seen.two_empty \/ (ZeroRows(outcome) /\ seen.empty_run >= 1)]

NoFetch ==
    /\ call = NoCall
    /\ gd = GdOff
    /\ cc = CcOff
    /\ ret = NoReturn
    /\ issued = <<>>
    /\ seen = NoneSeen

CeilDiv(a, b) == (a + b - 1) \div b

\* client.py 600-607: the number of pages of a concurrent fetch.
MaxPages(max_pages, user_limit, limit_per_request) ==
    IF max_pages # None THEN max_pages
    ELSE IF user_limit # None THEN CeilDiv(user_limit, limit_per_request)
    ELSE DefaultMaxPages

\* A mutant of PageParam: every page asks for a full page.
PageParamFull(page, offset, user_limit, limit_per_request) ==
    [offset |-> offset + page * limit_per_request, limit |-> limit_per_request]

\* client.py 611-626: the page with index page (from 0).
PageParam(page, offset, user_limit, limit_per_request) ==
    [offset |-> offset + page * limit_per_request,
     limit |-> IF user_limit # None
               THEN Min2(limit_per_request, user_limit - page * limit_per_request)
               ELSE limit_per_request]

\* client.py 611-618: the loop over range(max_pages) breaks at the first page
\* that has nothing left of the user's limit.
PageCount(max_pages, user_limit, limit_per_request) ==
    LET n == MaxPages(max_pages, user_limit, limit_per_request)
    IN  IF user_limit = None THEN n
        ELSE Cardinality({page \in 0..n - 1 :
                            \A q \in 0..page : user_limit - q * limit_per_request > 0})

\* client.py 699: sorted_params, as a function of the call: its length and
\* its k-th entry (from 1).  The pages are generated with strictly ascending
\* offsets (limit_per_request > 0), which the stable sort by offset leaves in
\* place.
sorted_params_len == PageCount(call.max_pages, call.limit, gd.limit_per_request)

sorted_params(k) == PageParam(k - 1, call.offset, call.limit, gd.limit_per_request)

\* A mutant of SeqPageLimit: the rows fetched so far are not subtracted.
SeqPageLimitOfTotal(user_limit, limit_per_request, total_fetched) ==
    IF user_limit # None
    THEN Min2(limit_per_request, user_limit)
    ELSE limit_per_request

\* client.py 641-648: the limit of the next page in sequential mode.
SeqPageLimit(user_limit, limit_per_request, total_fetched) ==
    IF user_limit # None
    THEN Min2(limit_per_request, user_limit - total_fetched)
    ELSE limit_per_request

\* client.py 666-667: data.get("has_more", False), an absent flag counts as
\* False.
SeqHasMore(data) == data.has_more = "true"

\* A mutant of NextOffset: one row is skipped between two pages.
NextOffsetSkipping(offset, current_count) == offset + current_count + 1

\* client.py 672: offset += current_count
NextOffset(offset, current_count) == offset + current_count

\* client.py 584-585: the limits get_data works with.  The endpoint's limits
\* are in the cache here.
get_api_info(api_name) == _api_info_cache[api_name]

\* client.py 578-634: the start of get_data, up to the first request or the
\* start of the paging.
get_data ==
    /\ gd.pc = "start" \/ (gd.pc = "info" /\ op.pc = "done")
    /\ IF ~call.auto_paging
       THEN /\ gd' = [gd EXCEPT !.pc = "direct"]
            /\ req' = [req EXCEPT !["main"] =
                          StartRequest(call.api_name,
                                       [offset |-> call.offset, limit |-> call.limit],
                                       call.fields)]
            /\ cc' = cc
       ELSE /\ call.api_name \in DOMAIN _api_info_cache
            /\ LET limit_per_request == get_api_info(call.api_name).limit_per_request
               IN  IF limit_per_request = 0
                   THEN /\ gd' = [gd EXCEPT !.pc = "direct"]
                        /\ req' = [req EXCEPT !["main"] =
                                      StartRequest(call.api_name,
                                                   [offset |-> call.offset,
                                                    limit |-> call.limit],
                                                   call.fields)]
                        /\ cc' = cc
                   ELSE IF call.concurrent
                   THEN /\ gd' = [gd EXCEPT !.pc = "concurrent",
                                            !.limit_per_request = limit_per_request]
                        /\ cc' = [CcOff EXCEPT !.pc = "submit"]
                        /\ req' = req
                   ELSE /\ gd' = [gd EXCEPT !.pc = "loop",
                                            !.limit_per_request = limit_per_request,
                                            !.offset = call.offset]
                        /\ cc' = cc
                        /\ req' = req
    /\ UNCHANGED <<rateVars, configVars, infoVars, used, srv, call, ret, issued, seen>>

\* client.py 580-581 and 589-590: the single request of a fetch without
\* paging has ended.
get_data_direct ==
    /\ gd.pc = "direct"
    /\ req["main"].pc = "done"
    /\ LET data == req["main"].outcome
       IN  /\ seen' = See(data)
           /\ IF data.kind = "raise"
              THEN /\ ret' = Raises(data)
                   /\ gd' = [gd EXCEPT !.pc = "raised"]
              ELSE /\ ret' = DataFrame(data.items, data.fields)
                   /\ gd' = [gd EXCEPT !.pc = "returned"]
    /\ req' = [req EXCEPT !["main"] = IdleFlow]
    /\ UNCHANGED <<rateVars, configVars, infoVars, used, srv, call, cc, issued>>

\* client.py 636-652: the top of the while loop, up to the page request; the
\* loop breaks, and get_data returns, when nothing is left of the user's
\* limit.
get_data_loop ==
    /\ gd.pc = "loop"
    /\ IF call.limit # None /\ call.limit - gd.total_fetched <= 0
       THEN /\ gd' = [gd EXCEPT !.pc = "returned"]
            /\ ret' = DataFrame(gd.all_data, gd.fields_list)
            /\ UNCHANGED <<req, issued>>
       ELSE LET page_params ==
                    [offset |-> gd.offset,
                     limit |-> SeqPageLimit(call.limit, gd.limit_per_request,
                                            gd.total_fetched)]
            IN  /\ Len(issued) < MaxIssued
                /\ gd' = [gd EXCEPT !.pc = "page"]
                /\ req' = [req EXCEPT !["main"] =
                              StartRequest(call.api_name, page_params, call.fields)]
                /\ issued' = Append(issued, page_params)
                /\ ret' = ret
    /\ UNCHANGED <<rateVars, configVars, infoVars, used, srv, call, cc, seen>>

\* client.py 652-679: the page request has ended; the rest of the loop body.
get_data_page ==
    /\ gd.pc = "page"
    /\ req["main"].pc = "done"
    /\ LET data == req["main"].outcome
           current_count == Len(data.items)
           all_data == gd.all_data \o data.items
           total_fetched == gd.total_fetched + current_count
           fields_list == IF gd.fields_list = <<>> THEN data.fields ELSE gd.fields_list
       IN  /\ seen' = See(data)
           /\ IF data.kind = "raise"
              THEN /\ ret' = Raises(data)
                   /\ gd' = [gd EXCEPT !.pc = "raised"]
              ELSE IF \/ ~SeqHasMore(data)
                      \/ (call.limit # None /\ total_fetched >= call.limit)
              THEN /\ ret' = DataFrame(all_data, fields_list)
                   /\ gd' = [gd EXCEPT !.pc = "returned", !.all_data = all_data,
                                       !.total_fetched = total_fetched,
                                       !.fields_list = fields_list]
              ELSE /\ ret' = ret
                   /\ gd' = [gd EXCEPT !.pc = "loop", !.all_data = all_data,
                                       !.total_fetched = total_fetched,
                                       !.fields_list = fields_list,
                                       !.offset = NextOffset(@, current_count)]
    /\ req' = [req EXCEPT !["main"] = IdleFlow]
    /\ UNCHANGED <<rateVars, configVars, infoVars, used, srv, call, cc, issued>>

(***************************************************************************)
(* _get_data_concurrent.  The pool has one thread per worker of            *)
(* WorkerSeq; a batch holds at most max_workers pages, and the k-th page   *)
(* of a batch runs on the k-th worker.                                     *)
(***************************************************************************)
WorkerSeq == <<"w1", "w2">>

max_workers == Len(WorkerSeq)

\* A mutant of fetch_page: every exception becomes an empty last page.
fetch_page_swallow(outcome, field_str) ==
    IF outcome.kind = "raise"
    THEN Data(IF field_str # "" THEN <<field_str>> ELSE <<>>, <<>>, "false")
    ELSE outcome

\* A mutant of fetch_page: no exception is converted.
fetch_page_reraise(outcome, field_str) == outcome

\* client.py 686-696: what the future of a page holds, given the outcome of
\* its _make_request call.  field_str.split(",") of a single field name is
\* the list of that name.
fetch_page(outcome, field_str) ==
    IF outcome.kind = "raise" /\ outcome.marker
    THEN Data(IF field_str # "" THEN <<field_str>> ELSE <<>>, <<>>, "false")
    ELSE outcome

\* client.py 725-739: the locals after the result of one page.
AfterPage(c, data) ==
    LET fields == IF c.fields = <<>> /\ data.fields # <<>> THEN data.fields ELSE c.fields
        empty == IF data.items = <<>> THEN c.empty_results_count + 1 ELSE 0
    IN  [c EXCEPT !.fields = fields,
                  !.all_data = c.all_data \o data.items,
                  !.empty_results_count =
                      IF data.has_more = "false" THEN max_empty_results ELSE empty]

\* client.py 709-719: the next batch is submitted, unless the loop is over.
\* A fetch without max_pages stops at MaxIssued page requests; the plan of
\* one with max_pages is that short by itself.
concurrent_submit ==
    /\ cc.pc = "submit"
    /\ cc.i < sorted_params_len
    /\ cc.empty_results_count < max_empty_results
    /\ LET n == Min2(max_workers, sorted_params_len - cc.i)
       IN  /\ call.max_pages = None => Len(issued) + n <= MaxIssued
           /\ req' = [f \in Flows |->
                        IF \E k \in 1..n : WorkerSeq[k] = f
                        THEN LET k == CHOOSE k \in 1..n : WorkerSeq[k] = f
                             IN StartRequest(call.api_name, sorted_params(cc.i + k),
                                             call.fields)
                        ELSE req[f]]
           /\ issued' = issued \o [k \in 1..n |-> sorted_params(cc.i + k)]
           /\ cc' = [cc EXCEPT !.pc = "collect",
                               !.pending = {WorkerSeq[k] : k \in 1..n}]
    /\ UNCHANGED <<rateVars, configVars, infoVars, used, srv, call, gd, ret, seen>>

\* A mutant of BatchDone: the batch counts as done after its first future.
BatchDoneAtFirst(pending) == TRUE

\* client.py 722: the loop over as_completed ends when every future of the
\* batch has been handed over.
BatchDone(pending) == pending = {}

\* client.py 722-743: as_completed hands over a finished future of the
\* batch; its result is merged, or its exception raised.  After the last
\* future of the batch the loop goes on with the next batch.
concurrent_collect(w) ==
    /\ cc.pc = "collect"
    /\ w \in cc.pending
    /\ req[w].pc = "done"
    /\ LET data == fetch_page(req[w].outcome, call.fields)
           pending == cc.pending \ {w}
       IN  /\ seen' = See(req[w].outcome)
           /\ IF data.kind = "raise"
              THEN cc' = [cc EXCEPT !.pc = "abort", !.pending = pending]
              ELSE cc' = [AfterPage(cc, data) EXCEPT
                             !.pending = pending,
                             !.pc = IF BatchDone(pending) THEN "submit" ELSE "collect",
                             !.i = IF BatchDone(pending) THEN cc.i + max_workers
                                   ELSE cc.i]
    /\ req' = [req EXCEPT ![w] = IdleFlow]
    /\ UNCHANGED <<rateVars, configVars, infoVars, used, srv, call, gd, ret, issued>>

\* client.py 706 and 743: the exception leaves the with block, which waits
\* for the running requests of the batch, and then get_data.
concurrent_abort ==
    /\ cc.pc = "abort"
    /\ \A w \in Workers : ~Running(w)
    /\ cc' = [cc EXCEPT !.pc = "off"]
    /\ gd' = [gd EXCEPT !.pc = "raised"]
    /\ ret' = Raises(seen.last)
    /\ UNCHANGED <<rateVars, configVars, infoVars, used, reqVars, call, issued, seen>>

\* client.py 709-713 and 745-747: the loop is over; an empty DataFrame is
\* returned when no page had fields, and otherwise the method ends without a
\* return statement.
concurrent_return ==
    /\ cc.pc = "submit"
    /\ ~(cc.i < sorted_params_len /\ cc.empty_results_count < max_empty_results)
    /\ cc' = [cc EXCEPT !.pc = "off"]
    /\ gd' = [gd EXCEPT !.pc = "returned"]
    /\ ret' = IF cc.fields = <<>> THEN DataFrame(<<>>, <<>>) ELSE ReturnsNone
    /\ UNCHANGED <<rateVars, configVars, infoVars, used, reqVars, call, issued, seen>>

(***************************************************************************)
(* APILimitDetector: the CSV file with the limits of the endpoints.  The   *)
(* file is either of size 0 or holds the header line and one line per      *)
(* record; a cell with a number holds its decimal digits.  The column      *)
(* last_updated, which nothing reads, is left out.                         *)
(***************************************************************************)
RECURSIVE str(_)
RECURSIVE int(_)

\* client.py 126: to_csv writes a number as its decimal digits.
str(n) == IF n < 10 THEN <<n>> ELSE Append(str(n \div 10), n % 10)

\* client.py 83 and 88-89: read_csv and int() read the digits as a number.
int(text) ==
    IF Len(text) = 0 THEN 0
    ELSE 10 * int(SubSeq(text, 1, Len(text) - 1)) + text[Len(text)]

\* A file of size 0.
EmptyFile == [size0 |-> TRUE, rows |-> <<>>]

\* client.py 69-75: the file _init_csv creates, with the header line only.
HeaderOnly == [size0 |-> FALSE, rows |-> <<>>]

CsvRow(api_name, limit_per_request, rate_limit) ==
    [api_name |-> api_name,
     limit_per_request |-> str(limit_per_request),
     rate_limit |-> str(rate_limit)]

\* df['api_name'].values
StoredNames(st) == {st.rows[i].api_name : i \in 1..Len(st.rows)}

\* get_api_limits returned None.
NotStored == [found |-> FALSE, limit_per_request |-> 0, rate_limit |-> 0]

Stored(limit_per_request, rate_limit) ==
    [found |-> TRUE, limit_per_request |-> limit_per_request, rate_limit |-> rate_limit]

\* client.py 77-95: the first line of the endpoint, if any; read_csv fails
\* on a file of size 0 and the method returns None.
get_api_limits(st, api_name) ==
    IF st.size0 \/ api_name \notin StoredNames(st) THEN NotStored
    ELSE LET i == CHOOSE i \in 1..Len(st.rows) :
                      /\ st.rows[i].api_name = api_name
                      /\ \A j \in 1..i - 1 : st.rows[j].api_name # api_name
         IN  Stored(int(st.rows[i].limit_per_request), int(st.rows[i].rate_limit))

\* A mutant of save_api_limits: the record is always appended.
save_api_limits_append(st, api_name, limit_per_request, rate_limit) ==
    [size0 |-> FALSE,
     rows |-> Append(st.rows, CsvRow(api_name, limit_per_request, rate_limit))]

\* client.py 97-129: the lines of the endpoint are overwritten, or a line
\* is appended; a file of size 0 is replaced by one with this record.
save_api_limits(st, api_name, limit_per_request, rate_limit) ==
    IF ~st.size0
    THEN IF api_name \in StoredNames(st)
         THEN [st EXCEPT !.rows =
                  [i \in 1..Len(st.rows) |->
                      IF st.rows[i].api_name = api_name
                      THEN CsvRow(api_name, limit_per_request, rate_limit)
                      ELSE st.rows[i]]]
         ELSE [st EXCEPT !.rows =
                  Append(@, CsvRow(api_name, limit_per_request, rate_limit))]
    ELSE [size0 |-> FALSE,
          rows |-> <<CsvRow(api_name, limit_per_request, rate_limit)>>]

\* client.py 131-147: the lines of the endpoint are dropped; nothing is
\* done to a file of size 0.
remove_api_limits(st, api_name) ==
    IF st.size0 THEN st
    ELSE IF api_name \in StoredNames(st)
         THEN [st EXCEPT !.rows = SelectSeq(@, LAMBDA r : r.api_name # api_name)]
         ELSE st

(***************************************************************************)
(* The operation of the client that runs, or ran last: get_api_info,       *)
(* clear_api_limits, force_redetect_api_limits, or a method of the         *)
(* detector called on its own.                                             *)
(*   pc          "idle", "cap" (before the request of                      *)
(*               _detect_request_limit), "rate" (in the loop of            *)
(*               _detect_rate_limit), "done" or "raised"                   *)
(*   sends       history: the requests it sent                             *)
(*   after_save  history: the operation before was save_api_limits for     *)
(*               the same endpoint, with these limits                      *)
(*   prev        history: the operation before, when it was for the same   *)
(*               endpoint and ended without exception                      *)
(*   probe       history: the response to the request of the cap probe     *)
(*   stop        history: how the rate probe ended: "rejected" (the server *)
(*               rejected a request for the rate), "timeout" (60 seconds   *)
(*               were over) or "error" (any other failure of a request)    *)
(*   admissions  history: the calls of _respect_rate_limit that            *)
(*               get_api_info made itself (client.py 420)                  *)
(***************************************************************************)
NoProbe == [kind |-> "none", count |-> 0, has_more |-> "absent"]

IdleOp == [name |-> "none", pc |-> "idle", api_name |-> "", caller |-> "",
           limit_per_request |-> 0, rate_limit |-> 0, count |-> 0, start_time |-> 0,
           sends |-> 0, result |-> NotStored, after_save |-> FALSE, prev |-> "none",
           probe |-> NoProbe, stop |-> "none", admissions |-> 0]

NoUse == [admit |-> FALSE, rate_probe |-> FALSE, ops |-> 0]

NoInfo ==
    /\ store = HeaderOnly
    /\ op = IdleOp
    /\ used = NoUse

\* The detector on its own: one call of save_api_limits.
StoreSave(api_name, limit_per_request, rate_limit) ==
    /\ store' = save_api_limits(store, api_name, limit_per_request, rate_limit)
    /\ op' = [IdleOp EXCEPT !.name = "save_api_limits", !.pc = "done",
                            !.api_name = api_name,
                            !.limit_per_request = limit_per_request,
                            !.rate_limit = rate_limit]
    /\ UNCHANGED <<rateVars, configVars, reqVars, fetchVars, used>>

\* The detector on its own: one call of get_api_limits.
StoreGet(api_name) ==
    /\ op' = [IdleOp EXCEPT !.name = "get_api_limits", !.pc = "done",
                            !.api_name = api_name,
                            !.limit_per_request = op.limit_per_request,
                            !.rate_limit = op.rate_limit,
                            !.result = get_api_limits(store, api_name),
                            !.after_save = /\ op.name = "save_api_limits"
                                           /\ op.api_name = api_name]
    /\ UNCHANGED <<rateVars, configVars, reqVars, fetchVars, store, used>>

\* The detector on its own: one call of remove_api_limits.
StoreRemove(api_name) ==
    /\ store' = remove_api_limits(store, api_name)
    /\ op' = [IdleOp EXCEPT !.name = "remove_api_limits", !.pc = "done",
                            !.api_name = api_name]
    /\ UNCHANGED <<rateVars, configVars, reqVars, fetchVars, used>>

(***************************************************************************)
(* get_api_info and the probes.  A probe request gets, like every          *)
(* request, one of the server's responses; a response to a request of the  *)
(* rate probe may be the server's rejection of a call beyond its rate      *)
(* limit (an error whose text contains "每分钟最多访问").  A request of the   *)
(* rate probe takes one of ProbeSteps seconds.                             *)
(***************************************************************************)
ProbeSteps == {30}

\* client.py 270-277: the cap probe sends the required parameters only.
ProbeParams == [offset |-> 0, limit |-> None]

RateOk == [kind |-> "ok", rejected |-> FALSE]

RateError(kind, rejected) == [kind |-> kind, rejected |-> rejected]

RateResponses ==
    {RateOk} \cup {RateError(k, r) : k \in {"app", "transport"}, r \in BOOLEAN}

\* What the history keeps of the response to the request of the cap probe.
Probed(resp) == [kind |-> resp.kind, count |-> resp.count, has_more |-> resp.has_more]

\* A mutant of RequestLimit: the row count alone decides.
RequestLimitByCount(resp) ==
    IF resp.kind # "ok" THEN DefaultCap
    ELSE IF resp.count % ProbeUnit = 0 /\ resp.count > 0 THEN resp.count
    ELSE 0

\* A mutant of RequestLimit: a failed probe counts as no cap.
RequestLimitNoDefault(resp) ==
    IF resp.kind # "ok" THEN 0
    ELSE IF resp.has_more # "absent"
    THEN IF resp.has_more = "false" THEN 0 ELSE resp.count
    ELSE IF resp.count % ProbeUnit = 0 /\ resp.count > 0 THEN resp.count
    ELSE 0

\* client.py 285-317: the cap that _detect_request_limit takes from the
\* response to its request.
RequestLimit(resp) ==
    IF resp.kind # "ok" THEN DefaultCap
    ELSE IF resp.has_more # "absent"
    THEN IF resp.has_more = "false" THEN 0 ELSE resp.count
    ELSE IF resp.count % ProbeUnit = 0 /\ resp.count > 0 THEN resp.count
    ELSE 0

\* A mutant of CachePut: the limits are not kept.
CachePutNothing(cache, api_name, limit_per_request, rate_limit) == cache

\* client.py 427-431
CachePut(cache, api_name, limit_per_request, rate_limit) ==
    DictSet(cache, api_name, Info(limit_per_request, rate_limit))

\* The frame and the return value of the get_data call before are gone
\* when the next operation starts.
ForgetFetch ==
    /\ call' = NoCall
    /\ gd' = GdOff
    /\ cc' = CcOff
    /\ ret' = NoReturn
    /\ issued' = <<>>
    /\ seen' = NoneSeen
    /\ srv' = InitSrv
    /\ req' = req

\* A client operation starts: none is running, and no get_data either.
CanStart ==
    /\ op.pc \in {"idle", "done", "raised"}
    /\ gd.pc \in {"off", "returned", "raised"}
    /\ used.ops < MaxOps

StartOp(name, api_name) ==
    [IdleOp EXCEPT !.name = name, !.api_name = api_name,
                   !.prev = IF op.api_name = api_name /\ op.pc = "done"
                            THEN op.name ELSE "none"]

\* client.py 392-432, from the lookup in the cache to the first probe
\* request, or to the return when the cache or the file has the limits.
\* o is the record of the operation that makes the call, st the file and
\* cache the cache at the call.
GetApiInfoFrom(o, st, cache) ==
    LET cached_limits == get_api_limits(st, o.api_name)
    IN  IF o.api_name \in DOMAIN cache
        THEN /\ op' = [o EXCEPT !.pc = "done",
                                !.result = Stored(cache[o.api_name].limit_per_request,
                                                  cache[o.api_name].rate_limit)]
             /\ _api_info_cache' = cache
        ELSE IF ~cached_limits.found
        THEN /\ op' = [o EXCEPT !.pc = "cap"]
             /\ _api_info_cache' = cache
        ELSE LET rate_limit == IF enable_rate_limit THEN cached_limits.rate_limit ELSE 0
             IN  /\ op' = [o EXCEPT !.pc = "done",
                                    !.result = Stored(cached_limits.limit_per_request,
                                                      rate_limit)]
                 /\ _api_info_cache' = CachePut(cache, o.api_name,
                                                cached_limits.limit_per_request,
                                                rate_limit)

\* client.py 386-432: a call of get_api_info(api_name) by the user.
get_api_info_call(api_name) ==
    /\ CanStart
    /\ GetApiInfoFrom(StartOp("get_api_info", api_name), store, _api_info_cache)
    /\ used' = [used EXCEPT !.ops = @ + 1]
    /\ UNCHANGED <<clock, _api_call_history, has_call_history, admitted, rl>>
    /\ ForgetFetch
    /\ UNCHANGED <<configVars, store>>

\* client.py 257-317, with 402-405 and 426-432 when rate limiting is
\* disabled, and 246-249 with 326-342 when it is enabled: the request of
\* the cap probe and what follows up to the first request of the rate probe.
_detect_request_limit(resp) ==
    /\ op.pc = "cap"
    /\ resp \in Responses(ProbeParams)
    /\ LET limit_per_request == RequestLimit(resp)
       IN  IF ~enable_rate_limit
           THEN /\ store' = save_api_limits(store, op.api_name, limit_per_request, 0)
                /\ _api_info_cache' =
                       CachePut(_api_info_cache, op.api_name, limit_per_request, 0)
                /\ op' = [op EXCEPT !.pc = "done", !.sends = @ + 1,
                                    !.limit_per_request = limit_per_request,
                                    !.result = Stored(limit_per_request, 0),
                                    !.probe = Probed(resp)]
                /\ UNCHANGED <<_api_call_history, has_call_history, used>>
           ELSE /\ op' = [op EXCEPT !.pc = "rate", !.sends = @ + 1,
                                    !.limit_per_request = limit_per_request,
                                    !.count = 0, !.start_time = clock,
                                    !.probe = Probed(resp)]
                /\ _api_call_history' =
                       IF op.api_name \in DOMAIN _api_call_history
                       THEN _api_call_history
                       ELSE DictSet(_api_call_history, op.api_name, <<>>)
                /\ has_call_history' = TRUE
                /\ used' = [used EXCEPT !.rate_probe = TRUE]
                /\ UNCHANGED <<store, _api_info_cache>>
    /\ UNCHANGED <<clock, admitted, rl, configVars, reqVars, fetchVars>>

\* A mutant of detected_limit: the count as it is.
detected_limit_raw(count) == count

\* client.py 378: detected_limit = max(1, count)
detected_limit(count) == IF count > 1 THEN count ELSE 1

\* client.py 378, 252 and 419-432: the rate probe is over with count
\* successful requests; the limits are saved, the caller waits for the
\* rate limiter when the history of the endpoint is not empty, and the
\* limits are put into the cache.
AfterRateProbe(count, history, now, stop) ==
    LET rate_limit == detected_limit(count)
        adm == IF history[op.api_name] # <<>>
               THEN Admission(_api_info_cache, history, op.api_name, now, 0)
               ELSE [recorded |-> FALSE, history |-> history, now |-> now, slept |-> 0]
    IN  /\ store' = save_api_limits(store, op.api_name, op.limit_per_request, rate_limit)
        /\ _api_call_history' = adm.history
        /\ admitted' = IF adm.recorded
                       THEN DictSet(admitted, op.api_name,
                                    Append(Log(op.api_name), adm.now))
                       ELSE admitted
        /\ clock' = adm.now
        /\ used' = [used EXCEPT !.admit = @ \/ history[op.api_name] # <<>>]
        /\ _api_info_cache' =
               CachePut(_api_info_cache, op.api_name, op.limit_per_request, rate_limit)
        /\ op' = [op EXCEPT !.pc = "done", !.sends = @ + 1, !.count = count,
                            !.rate_limit = rate_limit, !.stop = stop,
                            !.admissions = IF history[op.api_name] # <<>>
                                           THEN @ + 1 ELSE @,
                            !.result = Stored(op.limit_per_request, rate_limit)]

\* client.py 352-376: one request of the rate probe, which takes d seconds,
\* and what follows: the next turn of the loop, the end of the probe, or
\* the exception, which get_api_info lets pass and
\* force_redetect_api_limits swallows (client.py 462-469).
_detect_rate_limit(resp, d) ==
    /\ op.pc = "rate"
    /\ resp \in RateResponses
    /\ d \in ProbeSteps
    /\ resp.kind = "ok" => op.count < MaxProbes
    /\ LET now == clock + d
           history == DictSet(_api_call_history, op.api_name,
                              Append(_api_call_history[op.api_name], now))
       IN  IF resp.kind = "ok"
           THEN IF now - op.start_time < Window
                THEN /\ op' = [op EXCEPT !.sends = @ + 1, !.count = @ + 1]
                     /\ _api_call_history' = history
                     /\ clock' = now
                     /\ UNCHANGED <<store, _api_info_cache, admitted, used>>
                ELSE AfterRateProbe(op.count + 1, history, now, "timeout")
           ELSE IF resp.rejected
           THEN AfterRateProbe(op.count, _api_call_history, now, "rejected")
           ELSE /\ op' = [op EXCEPT !.sends = @ + 1, !.stop = "error",
                                    !.pc = IF op.name = "force_redetect_api_limits"
                                           THEN "done" ELSE "raised"]
                /\ clock' = now
                /\ UNCHANGED <<store, _api_info_cache, _api_call_history, admitted, used>>
    /\ UNCHANGED <<has_call_history, rl, configVars, reqVars, fetchVars>>

\* A call of get_data by the user, sequential and with defaults for the
\* other arguments.
get_data_call(api_name, auto_paging) ==
    /\ CanStart
    /\ call' = [NoCall EXCEPT !.api_name = api_name, !.auto_paging = auto_paging]
    /\ gd' = [GdOff EXCEPT !.pc = "start"]
    /\ cc' = CcOff
    /\ ret' = NoReturn
    /\ issued' = <<>>
    /\ seen' = NoneSeen
    /\ op' = StartOp("get_data", api_name)
    /\ used' = [used EXCEPT !.ops = @ + 1]
    /\ srv' = InitSrv
    /\ UNCHANGED <<rateVars, configVars, req, store>>

\* client.py 584 with 392-432: get_data calls get_api_info for an endpoint
\* whose limits are not in the cache.
get_data_info ==
    /\ gd.pc = "start"
    /\ call.auto_paging
    /\ call.api_name \notin DOMAIN _api_info_cache
    /\ op.name = "get_data"
    /\ op.pc = "idle"
    /\ GetApiInfoFrom(op, store, _api_info_cache)
    /\ gd' = [gd EXCEPT !.pc = "info"]
    /\ UNCHANGED <<clock, _api_call_history, has_call_history, admitted, rl>>
    /\ UNCHANGED <<configVars, reqVars, store, used, call, cc, ret, issued, seen>>

\* client.py 584: the exception of get_api_info leaves get_data.
get_data_info_raised ==
    /\ gd.pc = "info"
    /\ op.pc = "raised"
    /\ gd' = [gd EXCEPT !.pc = "raised"]
    /\ ret' = Raises(Raised(FALSE))
    /\ UNCHANGED <<rateVars, configVars, reqVars, infoVars, used, call, cc, issued, seen>>

\* A mutant of CacheDel: the entry stays.
CacheKeep(cache, api_name) == cache

\* client.py 442-443: del self._api_info_cache[api_name], if it is there.
CacheDel(cache, api_name) == [e \in DOMAIN cache \ {api_name} |-> cache[e]]

\* client.py 434-446
clear_api_limits(api_name) ==
    /\ CanStart
    /\ store' = remove_api_limits(store, api_name)
    /\ _api_info_cache' = CacheDel(_api_info_cache, api_name)
    /\ op' = [StartOp("clear_api_limits", api_name) EXCEPT !.pc = "done"]
    /\ used' = [used EXCEPT !.ops = @ + 1]
    /\ UNCHANGED <<clock, _api_call_history, has_call_history, admitted, rl>>
    /\ ForgetFetch
    /\ UNCHANGED configVars

\* client.py 448-469: the limits are cleared as by clear_api_limits, and
\* get_api_info runs up to its first probe request.
force_redetect_api_limits(api_name) ==
    /\ CanStart
    /\ store' = remove_api_limits(store, api_name)
    /\ GetApiInfoFrom(StartOp("force_redetect_api_limits", api_name), store',
                      CacheDel(_api_info_cache, api_name))
    /\ used' = [used EXCEPT !.ops = @ + 1]
    /\ UNCHANGED <<clock, _api_call_history, has_call_history, admitted, rl>>
    /\ ForgetFetch
    /\ UNCHANGED configVars

(***************************************************************************)
(* Initial states and specifications.                                      *)
(***************************************************************************)
\* No request is running; the client has its default configuration.
NoRequest ==
    /\ max_retries = 0
    /\ enable_rate_limit = TRUE
    /\ total_rows = 0
    /\ srv = InitSrv
    /\ req = [f \in Flows |-> IdleFlow]
    /\ NoFetch
    /\ NoInfo

(***************************************************************************)
(* The rate limiter on its own, called by a single flow at any time.       *)
(* Each endpoint is either not cached or cached with a rate limit in       *)
(* 0..MaxRate.                                                             *)
(***************************************************************************)
InitRate ==
    /\ clock = 0
    /\ \E cached \in SUBSET Endpoints :
         _api_info_cache \in [cached -> {Info(0, r) : r \in 0..MaxRate}]
    /\ _api_call_history = <<>>
    /\ has_call_history = FALSE
    /\ admitted = <<>>
    /\ rl = [w \in Workers |-> IdleWorker]
    /\ NoRequest

NextRate ==
    \/ \E d \in TickSteps : Tick(d)
    \/ \E e \in Endpoints : _respect_rate_limit(e)
    \/ \E e \in Endpoints : _respect_rate_limit_unlimited(e)

SpecRate == InitRate /\ [][NextRate]_vars


\* Several workers of one concurrent fetch: the endpoint they all call is
\* cached (get_data resolved its limits before it started them).
InitRace ==
    /\ clock = 0
    /\ \E e \in Endpoints :
         _api_info_cache \in [{e} -> {Info(0, r) : r \in 0..MaxRate}]
    /\ _api_call_history = <<>>
    /\ has_call_history = FALSE
    /\ admitted = <<>>
    /\ rl = [w \in Workers |-> IdleWorker]
    /\ NoRequest

NextRace ==
    \/ \E d \in TickSteps : Tick(d)
    \/ \E w \in Workers, e \in Endpoints : RlBegin(w, e)
    \/ \E e \in Endpoints : _respect_rate_limit_unlimited(e)
    \/ \E w \in Workers : RlInitAttr(w)
    \/ \E w \in Workers : RlHasKey(w)
    \/ \E w \in Workers : RlInitHistory(w)
    \/ \E w \in Workers : RlPruneRead(w)
    \/ \E w \in Workers : RlPruneWrite(w)
    \/ \E w \in Workers : RlCheck(w)
    \/ \E w \in Workers : RlOldest(w)
    \/ \E w \in Workers : RlWake(w)
    \/ \E w \in Workers : RlRecord(w)

SpecRace == InitRace /\ [][NextRace]_vars


(***************************************************************************)
(* One call _make_request(api_name, params, fields) with retry_count 0 by  *)
(* a single flow, for every configuration of the client, every state of    *)
(* the limits cache and every behaviour of the server.                     *)
(***************************************************************************)
RateLimits == IF enable_rate_limit THEN 0..MaxRate ELSE {0}

InitReq ==
    /\ clock = 0
    /\ max_retries \in 0..MaxRetries
    /\ enable_rate_limit \in BOOLEAN
    /\ total_rows \in 0..MaxRows
    /\ \E api_name \in Endpoints :
         /\ \E cached \in SUBSET {api_name} :
                _api_info_cache \in [cached -> {Info(0, r) : r \in RateLimits}]
         /\ \E offset \in 0..1, limit \in {None} \cup 1..2, fields \in {"", "ts_code"} :
                req = [f \in Flows |->
                         IF f = "main"
                         THEN StartRequest(api_name, [offset |-> offset, limit |-> limit],
                                           fields)
                         ELSE IdleFlow]
    /\ _api_call_history = <<>>
    /\ has_call_history = FALSE
    /\ admitted = <<>>
    /\ rl = [w \in Workers |-> IdleWorker]
    /\ srv = InitSrv
    /\ NoFetch
    /\ NoInfo

NextReq ==
    \E late \in 0..MaxLate : \E resp \in Responses(req["main"].params) :
        _make_request("main", resp, late)

SpecReq == InitReq /\ [][NextReq]_vars

(***************************************************************************)
(* One call of get_data, for every configuration of the client, every      *)
(* combination of its arguments and every behaviour of the server.  The    *)
(* limits of the endpoint are in the cache when the call pages (an earlier *)
(* call resolved them); rate_limit is 0 when rate limiting is disabled.    *)
(* max_pages is given to concurrent fetches only, which alone read it, and *)
(* fields is varied for them only: they alone look at it.  The client has  *)
(* max_retries 0: the paginator sees nothing of a page request but its     *)
(* outcome, and SpecReq covers how the outcomes come about with retries.   *)
(* The client is fresh: it has no call history yet.  The workers of a      *)
(* concurrent fetch run their page requests at the same time, with every   *)
(* interleaving of their steps; with rate limiting enabled such a fetch is *)
(* one of MaxPlan pages of one row each from a server that holds one row.  *)
(***************************************************************************)
FetchEndpoint == "daily"

InitFetch ==
    /\ clock = 0
    /\ max_retries = 0
    /\ enable_rate_limit \in BOOLEAN
    /\ total_rows \in 0..MaxRows
    /\ \E auto_paging \in BOOLEAN, concurrent \in BOOLEAN,
          max_pages \in {None, 1, MaxPlan}, offset \in 0..1,
          limit \in {None} \cup 0..MaxLimit, fields \in {"", "ts_code"} :
         /\ ~auto_paging => ~concurrent
         /\ ~concurrent => max_pages = None /\ fields = ""
         /\ (concurrent /\ enable_rate_limit) =>
                /\ offset = 0 /\ limit = None /\ fields = "" /\ max_pages = MaxPlan
                /\ total_rows = 1
         /\ call = [api_name |-> FetchEndpoint, fields |-> fields,
                    auto_paging |-> auto_paging, concurrent |-> concurrent,
                    max_pages |-> max_pages, offset |-> offset, limit |-> limit]
         /\ \E cached \in SUBSET {FetchEndpoint} :
              /\ auto_paging => cached # {}
              /\ _api_info_cache \in
                     [cached -> {Info(cap, r) :
                                 cap \in IF concurrent /\ enable_rate_limit
                                         THEN {1} ELSE 0..MaxCap,
                                 r \in IF enable_rate_limit THEN {MaxRate} ELSE {0}}]
    /\ _api_call_history = <<>>
    /\ has_call_history = FALSE
    /\ admitted = <<>>
    /\ rl = [w \in Workers |-> IdleWorker]
    /\ srv = InitSrv
    /\ req = [f \in Flows |-> IdleFlow]
    /\ gd = [GdOff EXCEPT !.pc = "start"]
    /\ cc = CcOff
    /\ ret = NoReturn
    /\ issued = <<>>
    /\ seen = NoneSeen
    /\ NoInfo

NextFetch ==
    \/ get_data
    \/ get_data_direct
    \/ get_data_loop
    \/ get_data_page
    \/ concurrent_submit
    \/ \E w \in Workers : concurrent_collect(w)
    \/ concurrent_abort
    \/ concurrent_return
    \/ \E resp \in Responses(req["main"].params) : _make_request("main", resp, 0)
    \/ \E w \in Workers : _make_request_admit(w)
    \/ \E w \in Workers : RlInitAttr(w)
    \/ \E w \in Workers : RlHasKey(w)
    \/ \E w \in Workers : RlInitHistory(w)
    \/ \E w \in Workers : RlPruneRead(w)
    \/ \E w \in Workers : RlPruneWrite(w)
    \/ \E w \in Workers : RlCheck(w)
    \/ \E w \in Workers : RlOldest(w)
    \/ \E w \in Workers : RlWake(w)
    \/ \E w \in Workers : RlRecord(w)
    \/ \E w \in Workers : \E resp \in Responses(req[w].params) : _make_request_send(w, resp)
    \/ time_sleep

SpecFetch == InitFetch /\ [][NextFetch]_vars

(***************************************************************************)
(* The detector's file on its own: any sequence of save_api_limits,        *)
(* get_api_limits and remove_api_limits calls, from a file of size 0 or a  *)
(* file with at most one record per endpoint.                              *)
(***************************************************************************)
StoreCaps == {0, 10, 5000}

StoreRates == {0, 12}

RECURSIVE RowSeqs(_)
\* The sequences of records with one record for each endpoint of names.
RowSeqs(names) ==
    IF names = {} THEN {<<>>}
    ELSE UNION {{<<CsvRow(e, c, r)>> \o rest :
                    c \in StoreCaps, r \in StoreRates, rest \in RowSeqs(names \ {e})} :
                e \in names}

StoreContents ==
    {EmptyFile} \cup
    UNION {{[size0 |-> FALSE, rows |-> rows] : rows \in RowSeqs(names)} :
           names \in SUBSET Endpoints}

\* A client that has done nothing yet, with its default configuration.
FreshClient ==
    /\ clock = 0
    /\ _api_info_cache = <<>>
    /\ _api_call_history = <<>>
    /\ has_call_history = FALSE
    /\ admitted = <<>>
    /\ rl = [w \in Workers |-> IdleWorker]
    /\ srv = InitSrv
    /\ req = [f \in Flows |-> IdleFlow]
    /\ NoFetch
    /\ op = IdleOp
    /\ used = NoUse

InitStore ==
    /\ FreshClient
    /\ max_retries = 0
    /\ enable_rate_limit = TRUE
    /\ total_rows = 0
    /\ store \in StoreContents

NextStore ==
    \/ \E e \in Endpoints, c \in StoreCaps, r \in StoreRates : StoreSave(e, c, r)
    \/ \E e \in Endpoints : StoreGet(e)
    \/ \E e \in Endpoints : StoreRemove(e)

SpecStore == InitStore /\ [][NextStore]_vars

(***************************************************************************)
(* The limits of the endpoints: any sequence of at most MaxOps calls of    *)
(* get_api_info, clear_api_limits, force_redetect_api_limits and           *)
(* (sequential) get_data, one after the other, by a client with an empty   *)
(* cache, with rate limiting enabled or disabled, whose file is of size 0, *)
(* holds the header only, or holds the record of one endpoint.  The server *)
(* holds no rows, which leaves it the choice between its errors and empty  *)
(* pages with any has_more; the call before has left nothing behind but    *)
(* the cache, the file, the call history and the time.                     *)
(***************************************************************************)
InfoStores ==
    {EmptyFile, HeaderOnly} \cup
    {[size0 |-> FALSE, rows |-> <<CsvRow(e, c, r)>>] :
        e \in Endpoints, c \in {0, MaxCap}, r \in {0, MaxRate}}

InitInfo ==
    /\ FreshClient
    /\ max_retries = 0
    /\ enable_rate_limit \in BOOLEAN
    /\ total_rows = 0
    /\ store \in InfoStores

NextInfo ==
    \/ \E e \in Endpoints : get_api_info_call(e)
    \/ \E resp \in Responses(ProbeParams) : _detect_request_limit(resp)
    \/ \E resp \in RateResponses, d \in ProbeSteps : _detect_rate_limit(resp, d)
    \/ \E e \in Endpoints : clear_api_limits(e)
    \/ \E e \in Endpoints : force_redetect_api_limits(e)
    \/ \E auto_paging \in BOOLEAN : get_data_call(FetchEndpoint, auto_paging)
    \/ get_data_info
    \/ get_data_info_raised
    \/ get_data
    \/ get_data_direct
    \/ get_data_loop
    \/ get_data_page
    \/ \E resp \in Responses(req["main"].params) : _make_request("main", resp, 0)

SpecInfo == InitInfo /\ [][NextInfo]_vars

(***************************************************************************)
(* The cap probe on its own: get_api_info for one endpoint of a client     *)
(* with rate limiting disabled, nothing in its cache and nothing in its    *)
(* file, against a server that holds 0 rows or 2 * ProbeUnit rows and      *)
(* answers the request of the cap probe, which asks for no limit, with any *)
(* number of them.  SpecInfo has the cap probe followed by the rate probe. *)
(***************************************************************************)
ProbeRows == {0, 2 * ProbeUnit}

InitProbe ==
    /\ FreshClient
    /\ max_retries = 0
    /\ enable_rate_limit = FALSE
    /\ total_rows \in ProbeRows
    /\ store = HeaderOnly

NextProbe ==
    \/ get_api_info_call(FetchEndpoint)
    \/ op.pc = "cap" /\ \E resp \in Responses(ProbeParams) : _detect_request_limit(resp)

SpecProbe == InitProbe /\ [][NextProbe]_vars

(***************************************************************************)
(* The claims.                                                             *)
(***************************************************************************)
(***************************************************************************)
(* The number of recorded timestamps in the 60 seconds that end at T.      *)
(***************************************************************************)
WindowCount(log, T) ==
    Cardinality({i \in 1..Len(log) : log[i] <= T /\ T - log[i] < Window})

\* C1: a single flow, an endpoint cached with rate limit R > 0, history empty
\* at the start: every 60-second window (T-60, T] holds at most R of the
\* timestamps recorded as admitted calls.
C1_WindowBound ==
    \A e \in DOMAIN _api_info_cache :
        _api_info_cache[e].rate_limit > 0 =>
            \A T \in 0..MaxTime + 1 :
                WindowCount(Log(e), T) <= _api_info_cache[e].rate_limit

\* C1 witness: more calls were admitted than one window allows, so the
\* limiter made a caller wait.
C1_Witness ==
    \E e \in DOMAIN _api_info_cache :
        /\ _api_info_cache[e].rate_limit > 0
        /\ Len(Log(e)) > _api_info_cache[e].rate_limit

\* C2: under every interleaving of the workers, no 60-second window holds
\* more than R admitted calls of an endpoint with rate limit R > 0, and no
\* recorded timestamp that is still inside the window is missing from the
\* endpoint's call history.
C2_MutualExclusion ==
    \A e \in DOMAIN _api_info_cache :
        _api_info_cache[e].rate_limit > 0 =>
            /\ \A T \in 0..MaxTime + 1 :
                   WindowCount(Log(e), T) <= _api_info_cache[e].rate_limit
            /\ \A i \in 1..Len(Log(e)) :
                   clock - Log(e)[i] < Window =>
                       Cardinality({j \in 1..Len(Log(e)) : Log(e)[j] = Log(e)[i]})
                       <= Cardinality({j \in 1..Len(DictGet(_api_call_history, e, <<>>)) :
                                          _api_call_history[e][j] = Log(e)[i]})

(***************************************************************************)
(* The modes of a get_data call (client.py 579-629): it pages when         *)
(* auto_paging is set and the endpoint's cap is positive, sequentially or  *)
(* concurrently.                                                           *)
(***************************************************************************)
Paging ==
    /\ call.auto_paging
    /\ call.api_name \in DOMAIN _api_info_cache
    /\ _api_info_cache[call.api_name].limit_per_request > 0

SequentialMode == Paging /\ ~call.concurrent

ConcurrentMode == Paging /\ call.concurrent

Cap == _api_info_cache[call.api_name].limit_per_request

\* Sequential mode, no user limit, start offset 0, and a server that has
\* answered every page so far with the rows in [offset, offset+limit) and
\* has_more = (offset+limit < N).
C3_Case ==
    /\ SequentialMode
    /\ call.limit = None
    /\ call.offset = 0
    /\ srv.honest

\* C3: in that case the page requests made are those at the offsets 0, C,
\* 2C, ... with limit C, at most max(1, ceil(N/C)) of them; when get_data has
\* returned they are exactly max(1, ceil(N/C)), the last page carried
\* has_more = false, and the result holds the N rows in server order, each
\* once.
C3_SequentialPaging ==
    C3_Case =>
        LET n == IF total_rows = 0 THEN 1 ELSE CeilDiv(total_rows, Cap)
        IN  /\ Len(issued) <= n
            /\ \A k \in 1..Len(issued) :
                   issued[k] = [offset |-> (k - 1) * Cap, limit |-> Cap]
            /\ gd.pc # "raised"
            /\ gd.pc = "returned" =>
                   /\ Len(issued) = n
                   /\ seen.last.kind = "ok"
                   /\ seen.last.has_more = "false"
                   /\ ret.kind = "frame"
                   /\ ret.rows = [i \in 1..total_rows |-> i]

\* C3 witness: a fetch of several pages, the last one not full, has returned
\* all rows of the server.
C3_Witness ==
    /\ C3_Case
    /\ gd.pc = "returned"
    /\ Len(issued) >= 2
    /\ issued[Len(issued)].offset + Cap > total_rows
    /\ Len(ret.rows) = total_rows

\* C4: a concurrent fetch that ends without a hard page failure, after at
\* least one page returned rows, returns a DataFrame whose rows are the rows
\* of all pages that completed, each once.
C4_ConcurrentResult ==
    (/\ ConcurrentMode
     /\ gd.pc = "returned"
     /\ ~seen.hard
     /\ cc.all_data # <<>>)
    => (/\ ret.kind = "frame"
        /\ ret.rows = cc.all_data)

\* C5: a _make_request call started with retry_count 0 sends at most
\* max_retries + 1 requests, whatever errors the server answers with, and
\* ends with an exception when its last attempt failed.
C5_RetryBudget ==
    \A f \in Flows :
        /\ req[f].sends <= max_retries + 1
        /\ (req[f].pc = "done" /\ req[f].last.kind # "ok") => req[f].outcome.kind = "raise"

\* C6: when the server answers with a status code that is not retryable,
\* _make_request fails at once: no sleep and no further send.
C6_NoRetryOfOtherCodes ==
    [][\A f \in Flows :
          (/\ req'[f].sends = req[f].sends + 1
           /\ req'[f].last.kind = "app"
           /\ ~req'[f].last.retryable)
          => (/\ req'[f].pc = "done"
              /\ req'[f].outcome.kind = "raise"
              /\ req'[f].sleeps = req[f].sleeps)]_vars

\* C7: once a page request of a paging fetch has failed with an error that
\* is not an offset-range error, get_data returns nothing: it ends by
\* raising that error, and no further page request (in concurrent mode: no
\* further batch) is made.
C7_HardFailure ==
    /\ [](Paging /\ seen.hard =>
            /\ ret.kind \in {"none", "raise"}
            /\ ret.rows = <<>>
            /\ gd.pc # "returned"
            /\ gd.pc = "raised" => (ret.kind = "raise" /\ ~ret.marker))
    /\ [][Paging /\ seen.hard => issued' = issued]_vars

\* C7 witness: a concurrent fetch that had collected rows ended by raising
\* the hard failure of a later page.
C7_Witness ==
    /\ ConcurrentMode
    /\ seen.hard
    /\ cc.all_data # <<>>
    /\ gd.pc = "raised"
    /\ ret.kind = "raise"

\* A worker's page request ended with an offset-range error, and the main
\* thread takes its result in this step.
CollectsOffsetError(w) ==
    /\ ConcurrentMode
    /\ cc.pc = "collect"
    /\ req[w].pc = "done"
    /\ req[w].outcome.kind = "raise"
    /\ req[w].outcome.marker
    /\ req'[w].pc = "idle"

\* C8: in concurrent mode a page that failed with an offset-range error
\* counts as a page without rows and with has_more = false: taking its
\* result does not abort the fetch, leaves the rows collected so far as
\* they are, and ends the submission of batches; a fetch that saw only such
\* failures does not raise.
C8_OffsetErrorIsEmptyPage ==
    /\ [][\A w \in Workers :
            CollectsOffsetError(w) =>
                /\ cc'.pc \in {"collect", "submit"}
                /\ cc'.all_data = cc.all_data
                /\ cc'.empty_results_count = max_empty_results
                /\ ret' = ret]_vars
    /\ [](ConcurrentMode /\ seen.soft /\ ~seen.hard =>
            /\ ret.kind # "raise"
            /\ gd.pc # "raised")

\* C8 witness: a concurrent fetch has ended without raising after a page
\* with rows and a page that failed with an offset-range error.
C8_Witness ==
    /\ ConcurrentMode
    /\ seen.soft
    /\ ~seen.hard
    /\ cc.all_data # <<>>
    /\ cc.empty_results_count = max_empty_results
    /\ gd.pc = "returned"

\* C9: also in sequential mode a page request that fails with an
\* offset-range error is never raised to the caller: get_data returns the
\* rows fetched so far.
C9_OffsetErrorNeverSurfaced ==
    (SequentialMode /\ seen.soft /\ ~seen.hard) =>
        /\ ret.kind # "raise"
        /\ gd.pc # "raised"
        /\ gd.pc \in {"returned", "raised"} =>
               (ret.kind = "frame" /\ ret.rows = gd.all_data)

\* C10: in sequential mode every page request carries the limit
\* min(C, L - rows fetched so far) when a user limit L is given, and C
\* otherwise; no page request is made after a page with has_more = false or
\* after L rows have been fetched; and when the server never returned more
\* rows than a request's limit, the result has at most L rows.
C10_SequentialLimit ==
    /\ [][SequentialMode =>
            /\ issued' # issued =>
                   /\ Len(issued') = Len(issued) + 1
                   /\ issued'[Len(issued')].limit =
                          IF call.limit # None
                          THEN Min2(Cap, call.limit - Len(gd.all_data))
                          ELSE Cap
            /\ (\/ seen.last.kind = "ok" /\ seen.last.has_more = "false"
                \/ call.limit # None /\ Len(gd.all_data) >= call.limit)
               => issued' = issued]_vars
    /\ [](SequentialMode /\ call.limit # None /\ ~srv.over =>
            Len(ret.rows) <= call.limit)

\* C10 witness: a fetch with a user limit has returned exactly L rows after
\* a last page whose limit was what remained of L, less than the cap.
C10_Witness ==
    /\ SequentialMode
    /\ call.limit # None
    /\ gd.pc = "returned"
    /\ Len(issued) >= 2
    /\ issued[Len(issued)].limit < Cap
    /\ Len(ret.rows) = call.limit

\* C11: in sequential mode a page without has_more field ends the fetch only
\* when it holds fewer rows than the limit of its request; after a full
\* page without the field the next page is requested.  So a fetch that has
\* returned after such a page, with the user's limit not reached, got less
\* than a full page last.
C11_AbsentFlagInferred ==
    (/\ SequentialMode
     /\ gd.pc = "returned"
     /\ seen.last.kind = "ok"
     /\ seen.last.has_more = "absent"
     /\ (call.limit = None \/ Len(gd.all_data) < call.limit))
    => Len(seen.last.items) < issued[Len(issued)].limit

\* This step is the call of the operation name for the endpoint e.
CallStep(name, e) ==
    /\ used'.ops = used.ops + 1
    /\ op'.name = name
    /\ op'.api_name = e

\* C12: a get_api_info(e) that has returned leaves the limits it returned
\* in the cache; the limits of e in the cache change or go only in a step
\* of clear_api_limits(e) or force_redetect_api_limits(e); and a call of
\* get_api_info(e) with the limits of e in the cache returns them at once,
\* sends nothing, probes nothing and changes neither cache, file nor call
\* history.
C12_GetApiInfoIdempotent ==
    /\ [](op.name = "get_api_info" /\ op.pc = "done" =>
            /\ op.result.found
            /\ op.api_name \in DOMAIN _api_info_cache
            /\ _api_info_cache[op.api_name] =
                   Info(op.result.limit_per_request, op.result.rate_limit))
    /\ [][\A e \in DOMAIN _api_info_cache :
            /\ (e \notin DOMAIN _api_info_cache' \/ _api_info_cache'[e] # _api_info_cache[e])
               => /\ op'.name \in {"clear_api_limits", "force_redetect_api_limits"}
                  /\ op'.api_name = e
            /\ CallStep("get_api_info", e) =>
                  /\ op'.pc = "done"
                  /\ op'.sends = 0
                  /\ op'.result = Stored(_api_info_cache[e].limit_per_request,
                                         _api_info_cache[e].rate_limit)
                  /\ _api_info_cache' = _api_info_cache
                  /\ store' = store
                  /\ _api_call_history' = _api_call_history
                  /\ used'.rate_probe = used.rate_probe
                  /\ used'.admit = used.admit]_vars

\* C12 witness: get_api_info(e) probed the limits of e, and the next call,
\* get_api_info(e) again, has returned the same limits without a request.
C12_Witness ==
    /\ op.name = "get_api_info"
    /\ op.prev = "get_api_info"
    /\ op.pc = "done"
    /\ op.sends = 0
    /\ used.rate_probe
    /\ op.result.rate_limit > 0
    /\ get_api_limits(store, op.api_name) = op.result

\* C13: after clear_api_limits(e), whatever the cache and the file held,
\* neither holds limits of e; a get_api_info(e) called next finds nothing
\* and goes to the probe, so that it has sent a request when it ends; and
\* when it returns, the cache and the file both hold the limits it returns.
C13_ClearThenReprobe ==
    /\ [][\A e \in Endpoints :
            /\ CallStep("clear_api_limits", e) =>
                  /\ e \notin DOMAIN _api_info_cache'
                  /\ ~get_api_limits(store', e).found
            /\ (CallStep("get_api_info", e) /\ op.name = "clear_api_limits"
                                            /\ op.api_name = e) =>
                  /\ op'.pc = "cap"
                  /\ op'.prev = "clear_api_limits"]_vars
    /\ [](op.name = "get_api_info" /\ op.prev = "clear_api_limits" =>
            /\ op.pc \in {"cap", "rate", "done", "raised"}
            /\ op.pc \in {"rate", "done", "raised"} => op.sends >= 1
            /\ op.pc = "done" =>
                  /\ op.result.found
                  /\ op.api_name \in DOMAIN _api_info_cache
                  /\ _api_info_cache[op.api_name] =
                         Info(op.result.limit_per_request, op.result.rate_limit)
                  /\ get_api_limits(store, op.api_name) = op.result)

\* C13 witness: the limits of e were cleared, and the get_api_info(e)
\* after that has probed the cap and the rate and has returned.
C13_Witness ==
    /\ op.name = "get_api_info"
    /\ op.prev = "clear_api_limits"
    /\ op.pc = "done"
    /\ op.sends >= 2
    /\ used.ops = 3
    /\ get_api_limits(store, op.api_name) = op.result

\* C14: in a client with enable_rate_limit false, whatever get_data,
\* get_api_info, clear_api_limits and force_redetect_api_limits calls were
\* made, _respect_rate_limit was never called, the rate probe never ran,
\* the call history was never written, and every rate limit that was
\* resolved, returned or cached, is 0.
C14_DisabledNeverLimits ==
    ~enable_rate_limit =>
        /\ ~used.admit
        /\ ~used.rate_probe
        /\ op.pc # "rate"
        /\ _api_call_history = <<>>
        /\ \A e \in DOMAIN _api_info_cache : _api_info_cache[e].rate_limit = 0
        /\ op.result.rate_limit = 0

\* C14 witness: rate limiting is disabled and the file holds a rate of the
\* endpoint that is not 0; get_data has resolved the limits from the file,
\* has sent a request and has returned.
C14_Witness ==
    /\ ~enable_rate_limit
    /\ get_api_limits(store, FetchEndpoint).found
    /\ get_api_limits(store, FetchEndpoint).rate_limit > 0
    /\ op.name = "get_data"
    /\ op.pc = "done"
    /\ op.result.found
    /\ FetchEndpoint \in DOMAIN _api_info_cache
    /\ gd.pc = "returned"
    /\ Len(issued) >= 1

\* C15: when force_redetect_api_limits(e) has returned, the cache and the
\* file hold limits of e, the same in both, and e was probed for them.
C15_ForceRedetectRepopulates ==
    (op.name = "force_redetect_api_limits" /\ op.pc = "done") =>
        /\ op.sends >= 1
        /\ op.api_name \in DOMAIN _api_info_cache
        /\ get_api_limits(store, op.api_name) =
               Stored(_api_info_cache[op.api_name].limit_per_request,
                      _api_info_cache[op.api_name].rate_limit)

\* C16: a call of _respect_rate_limit for an endpoint e with rate limit
\* R > 0, made at time now by a single flow.  When the history of e, pruned
\* at now, holds fewer than R entries, the call records now and time has
\* not passed.  When it holds R or more, the flow is put to sleep for
\* 60 - (now - oldest) seconds, which is more than 0 and at most 60 (the
\* sleep may last up to MaxLate longer than asked), and the time recorded
\* is the time after the sleep, 60 seconds or more after the oldest entry
\* that was retained.
C16_AdmitWaits ==
    [][\A e \in Endpoints :
        Log(e)' # Log(e) =>
            LET R == RateLimitOf(_api_info_cache, e)
                now == clock
                retained == SelectSeq(DictGet(_api_call_history, e, <<>>),
                                      LAMBDA t : now - t < 60)
                oldest == SeqMin(retained)
                wait == 60 - (now - oldest)
            IN  /\ R > 0
                /\ Len(retained) < R =>
                      /\ clock' = now
                      /\ _api_call_history'[e] = Append(retained, now)
                /\ Len(retained) >= R =>
                      /\ wait > 0
                      /\ wait <= 60
                      /\ \E late \in 0..MaxLate : clock' = now + wait + late
                      /\ clock' >= oldest + 60
                      /\ _api_call_history'[e] = Append(retained, clock')]_vars

\* C16 witness: an endpoint with rate limit 2 was called three times back
\* to back; the first two calls were recorded at once and the third 60
\* seconds later.
C16_Witness ==
    \E e \in DOMAIN _api_info_cache :
        /\ _api_info_cache[e].rate_limit = 2
        /\ Len(Log(e)) = 3
        /\ Log(e)[2] = Log(e)[1]
        /\ Log(e)[3] = Log(e)[1] + 60

\* The records of the file that are not records of the endpoint e.
OtherRecords(st, e) == SelectSeq(st.rows, LAMBDA r : r.api_name # e)

\* C17: whatever the file holds (nothing at all, the header only, a record
\* of e, records of other endpoints), after save_api_limits(e, cap, rate)
\* get_api_limits(e) returns cap and rate, the records of the other
\* endpoints are the same as before, and so is what get_api_limits returns
\* for them; a get_api_limits(e) called next returns cap and rate.
C17_StoreRoundTrip ==
    /\ [][op'.name = "save_api_limits" =>
            LET e == op'.api_name
            IN  /\ get_api_limits(store', e) =
                       Stored(op'.limit_per_request, op'.rate_limit)
                /\ OtherRecords(store', e) = OtherRecords(store, e)
                /\ \A x \in Endpoints \ {e} :
                       get_api_limits(store', x) = get_api_limits(store, x)]_vars
    /\ [](op.name = "get_api_limits" /\ op.after_save =>
            op.result = Stored(op.limit_per_request, op.rate_limit))

\* C17 witness: the file held a record of e and one of another endpoint;
\* other limits of e were saved, and get_api_limits(e) has returned them.
C17_Witness ==
    /\ op.name = "get_api_limits"
    /\ op.after_save
    /\ op.result = Stored(5000, 12)
    /\ Len(store.rows) = 2
    /\ Len(OtherRecords(store, op.api_name)) = 1
    /\ get_api_limits(store, CHOOSE x \in Endpoints : x # op.api_name).found

\* C18: in a concurrent fetch, once a page has come back with has_more
\* false in its response, no page request is submitted any more.
C18_NoBatchAfterNoMore ==
    [][ConcurrentMode /\ seen.no_more => issued' = issued]_vars

\* C19: in a concurrent fetch, once two pages handed over one after the
\* other had no rows, no page request is submitted any more.
C19_NoBatchAfterTwoEmpty ==
    [][ConcurrentMode /\ seen.two_empty => issued' = issued]_vars

\* The page requests of the fetch that are in flight.
InFlight == {w \in Workers : Running(w)}

\* C20: in a concurrent fetch at most max_workers page requests are in
\* flight, and they are requests of the batch submitted last; a batch has
\* at most max_workers pages and is submitted when every page submitted
\* before has completed and has been handed over; and when get_data has
\* returned or raised no page request is in flight.
C20_Batches ==
    /\ [](ConcurrentMode =>
            /\ Cardinality(InFlight) <= max_workers
            /\ Cardinality(InFlight) <= Len(issued)
            /\ cc.pc = "collect" =>
                  /\ Len(issued) - cc.i \in 1..max_workers
                  /\ Cardinality(InFlight) <= Len(issued) - cc.i
            /\ cc.pc # "collect" /\ cc.pc # "abort" => InFlight = {}
            /\ gd.pc \in {"returned", "raised"} => InFlight = {})
    /\ [][ConcurrentMode /\ issued' # issued =>
            /\ \A w \in Workers : req[w].pc = "idle"
            /\ cc.pending = {}
            /\ Len(issued) = cc.i
            /\ Len(issued') - Len(issued) \in 1..max_workers
            /\ SubSeq(issued', 1, Len(issued)) = issued]_vars

\* C20 witness: after two batches of max_workers pages each, the third
\* batch is out up to the last page of the plan; no request is in flight
\* any more and a completed page waits to be handed over.
C20_Witness ==
    /\ ConcurrentMode
    /\ cc.pc = "collect"
    /\ cc.i = 2 * max_workers
    /\ Len(issued) = MaxPlan
    /\ Cardinality(InFlight) = 0
    /\ \E w \in cc.pending : req[w].pc = "done"

\* The plan of the concurrent fetch that runs has been made.
Planned == ConcurrentMode /\ gd.pc = "concurrent" /\ call.max_pages = None

RECURSIVE SumOfLimits(_)
\* The sum of the limits of the first n planned pages.
SumOfLimits(n) == IF n = 0 THEN 0 ELSE SumOfLimits(n - 1) + sorted_params(n).limit

\* C21: the plan of a concurrent fetch with cap C > 0, start offset o and
\* no max_pages.  With a user limit L it has the pages k = 0 .. n-1, n the
\* least number with n*C >= L; page k has offset o + k*C and limit
\* min(C, L - k*C), so that each page starts where the one before ends and
\* the limits sum to L.  Without a user limit it has 1000 pages with limit
\* C each.  The page requests are submitted in the order of the plan, with
\* ascending offsets.
C21_PagePlan ==
    Planned =>
        LET C == Cap
            o == call.offset
            L == call.limit
            n == sorted_params_len
        IN  /\ L # None =>
                  /\ n * C >= L
                  /\ n > 0 => (n - 1) * C < L
                  /\ \A k \in 0..n - 1 :
                        /\ sorted_params(k + 1).offset = o + k * C
                        /\ sorted_params(k + 1).limit =
                               (IF C <= L - k * C THEN C ELSE L - k * C)
                        /\ sorted_params(k + 1).limit > 0
                        /\ k > 0 => sorted_params(k + 1).offset =
                               sorted_params(k).offset + sorted_params(k).limit
                  /\ SumOfLimits(n) = L
            /\ L = None =>
                  /\ n = 1000
                  /\ \A k \in 0..n - 1 : sorted_params(k + 1) =
                                            [offset |-> o + k * C, limit |-> C]
            /\ Len(issued) <= n
            /\ \A i \in 1..Len(issued) : issued[i] = sorted_params(i)
            /\ \A i \in 2..Len(issued) : issued[i].offset > issued[i - 1].offset

\* C21 witness: a fetch of 3 rows from offset 1 with cap 2 has submitted
\* both pages of its plan, the second for the one row that is left.
C21_Witness ==
    /\ Planned
    /\ Cap = 2
    /\ call.limit = 3
    /\ call.offset = 1
    /\ issued = <<[offset |-> 1, limit |-> 2], [offset |-> 3, limit |-> 1]>>

\* C22: a request of _make_request is sent in the step that raises the
\* send count of the flow.  When rate limiting is enabled and the limits
\* of the endpoint are in the cache, _respect_rate_limit is called once in
\* that step, before the send and after the send before, and with a rate
\* limit above 0 it records a time that is not before the call; when the
\* limits are not in the cache, or rate limiting is disabled, it is not
\* called and the call history stays as it is.  So the flow has made as
\* many admissions as sends in the first case and none in the second.
C22_AdmissionPerSend ==
    /\ [][req'["main"].sends # req["main"].sends =>
            LET e == req["main"].api_name
                limited == enable_rate_limit /\ e \in DOMAIN _api_info_cache
            IN  /\ req'["main"].sends = req["main"].sends + 1
                /\ limited =>
                      /\ req'["main"].admissions = req["main"].admissions + 1
                      /\ used'.admit
                      /\ _api_info_cache[e].rate_limit > 0 =>
                            /\ e \in DOMAIN _api_call_history'
                            /\ _api_call_history'[e] # <<>>
                            /\ _api_call_history'[e][Len(_api_call_history'[e])] >= clock
                /\ ~limited =>
                      /\ req'["main"].admissions = req["main"].admissions
                      /\ _api_call_history' = _api_call_history
                      /\ clock' - clock \in {0, retry_delay}]_vars
    /\ [](req["main"].pc # "idle" =>
            req["main"].admissions =
                (IF enable_rate_limit /\ req["main"].api_name \in DOMAIN _api_info_cache
                 THEN req["main"].sends ELSE 0))

\* C22 witness: with rate limiting enabled and the endpoint cached with a
\* rate limit above 0, a call has ended after a first attempt and retries,
\* each of them admitted.
C22_Witness ==
    /\ enable_rate_limit
    /\ req["main"].pc = "done"
    /\ req["main"].api_name \in DOMAIN _api_info_cache
    /\ _api_info_cache[req["main"].api_name].rate_limit > 0
    /\ req["main"].sends >= 2
    /\ req["main"].admissions = req["main"].sends
    /\ Len(_api_call_history[req["main"].api_name]) >= 2

\* C23: when the response to the request of the cap probe is a success
\* with n rows, _detect_request_limit returns 0 if has_more is there and
\* false, n if it is there and true, and without has_more n if n is a
\* positive multiple of 1000 and 0 if not.
C23_CapProbe ==
    op.probe.kind = "ok" =>
        LET n == op.probe.count
        IN  /\ op.probe.has_more = "false" => op.limit_per_request = 0
            /\ op.probe.has_more = "true" => op.limit_per_request = n
            /\ op.probe.has_more = "absent" =>
                  /\ (n > 0 /\ \E m \in 1..n : n = m * 1000) => op.limit_per_request = n
                  /\ ~(n > 0 /\ \E m \in 1..n : n = m * 1000) => op.limit_per_request = 0

\* C23 witness: the server answered the request of the cap probe with 2000
\* rows and no has_more, and 2000 is the cap; get_api_info has returned it.
C23_Witness ==
    /\ op.name = "get_api_info"
    /\ op.pc = "done"
    /\ op.probe = [kind |-> "ok", count |-> 2000, has_more |-> "absent"]
    /\ op.result = Stored(2000, 0)

\* C24: when the request of the cap probe fails, with a transport error or
\* a status that is not 0, _detect_request_limit returns 5000 and no
\* exception: get_api_info goes on, and an exception leaves it only after
\* a request of the rate probe.  When get_api_info returns limits, 5000 is
\* the cap it returns, the cap in the cache and the cap in the file.
C24_CapProbeDefault ==
    op.probe.kind \in {"app", "transport"} =>
        /\ op.limit_per_request = 5000
        /\ op.pc \in {"rate", "done", "raised"}
        /\ op.pc = "raised" => enable_rate_limit /\ op.sends >= 2
        /\ (op.pc = "done" /\ op.result.found) =>
              /\ op.result.limit_per_request = 5000
              /\ op.api_name \in DOMAIN _api_info_cache
              /\ _api_info_cache[op.api_name].limit_per_request = 5000
              /\ get_api_limits(store, op.api_name).found
              /\ get_api_limits(store, op.api_name).limit_per_request = 5000

\* C24 witness: with rate limiting enabled the request of the cap probe
\* met a transport error; get_api_info has returned the cap 5000 with the
\* rate it probed, and both are in the cache and in the file.
C24_Witness ==
    /\ enable_rate_limit
    /\ op.name = "get_api_info"
    /\ op.pc = "done"
    /\ op.probe.kind = "transport"
    /\ op.result = Stored(5000, op.rate_limit)
    /\ op.rate_limit >= 1
    /\ _api_info_cache[op.api_name] = Info(5000, op.rate_limit)
    /\ get_api_limits(store, op.api_name) = op.result

\* The requests of the rate probe that succeeded: all it sent, but the one
\* that was rejected or failed.
ProbeSuccesses == op.sends - 1 - (IF op.stop = "timeout" THEN 0 ELSE 1)

\* C25: the rate probe sends requests while less than 60 seconds have
\* passed since it began and none was rejected; after a rejection for the
\* rate, or after 60 seconds, it yields the number of its requests that
\* succeeded, and 1 when none did.  Any other failure of a request leaves
\* get_api_info as an exception, and then the cache and the file hold no
\* limits of the endpoint.
C25_RateProbe ==
    /\ op.pc = "rate" => op.stop = "none" /\ clock - op.start_time < 60
    /\ op.stop \in {"rejected", "timeout"} =>
          /\ op.pc = "done"
          /\ op.stop = "timeout" => ProbeSuccesses >= 1
          /\ op.result.found
          /\ op.result.rate_limit = (IF ProbeSuccesses >= 1 THEN ProbeSuccesses ELSE 1)
          /\ get_api_limits(store, op.api_name) = op.result
          /\ _api_info_cache[op.api_name] =
                 Info(op.result.limit_per_request, op.result.rate_limit)
    /\ op.stop = "error" =>
          /\ op.pc = (IF op.name = "force_redetect_api_limits" THEN "done" ELSE "raised")
          /\ ~op.result.found
          /\ op.api_name \notin DOMAIN _api_info_cache
          /\ ~get_api_limits(store, op.api_name).found

\* C25 witness: the first request of the rate probe succeeded and the
\* second was rejected for the rate; get_api_info has returned the rate 1.
C25_Witness ==
    /\ op.name = "get_api_info"
    /\ op.pc = "done"
    /\ op.stop = "rejected"
    /\ op.sends = 3
    /\ op.result.rate_limit = 1

\* The entries of the call history of the endpoint e.
HistoryOf(history, e) == DictGet(history, e, <<>>)

\* This step has a call of _respect_rate_limit in it: by a frame of
\* _make_request, or by get_api_info after its probes (client.py 419-420),
\* which makes the call when the history of the endpoint is not empty.
AdmissionStep ==
    \/ \E f \in Flows : req'[f].admissions > req[f].admissions
    \/ op'.admissions > op.admissions

\* C26: the entries of the call history of an endpoint change only in a
\* step that has a call of _respect_rate_limit in it.
C26_HistoryOnlyByAdmission ==
    [][\A e \in Endpoints :
          HistoryOf(_api_call_history', e) # HistoryOf(_api_call_history, e)
              => AdmissionStep]_vars

\* C27: a call of _respect_rate_limit(e) that records a time leaves the
\* call history of every other endpoint as it is, and it suspends the
\* caller exactly when the entries of e's own history that are less than
\* 60 seconds old are as many as e's own rate limit, or more.  A call for
\* an endpoint with rate limit 0 changes no history and takes no time.
C27_PerEndpoint ==
    /\ [][\A e \in Endpoints :
            Log(e)' # Log(e) =>
                LET R == IF e \in DOMAIN _api_info_cache
                         THEN _api_info_cache[e].rate_limit ELSE 60
                    own == HistoryOf(_api_call_history, e)
                    recent == {i \in 1..Len(own) : clock - own[i] < 60}
                IN  /\ R # 0
                    /\ \A x \in Endpoints \ {e} :
                          /\ HistoryOf(_api_call_history', x)
                                 = HistoryOf(_api_call_history, x)
                          /\ x \in DOMAIN _api_call_history'
                                 <=> x \in DOMAIN _api_call_history
                    /\ clock' > clock <=> Cardinality(recent) >= R]_vars
    /\ [][(used' # used /\ admitted' = admitted) =>
            /\ _api_call_history' = _api_call_history
            /\ clock' = clock]_vars

\* C27 witness: two endpoints with rate limits 1 and 2 were called twice
\* each; the second call of the first was suspended for 60 seconds, and
\* after that the two calls of the other were recorded without a wait.
C27_Witness ==
    \E e \in DOMAIN _api_info_cache, x \in DOMAIN _api_info_cache :
        /\ _api_info_cache[e].rate_limit = 1
        /\ _api_info_cache[x].rate_limit = 2
        /\ Len(Log(e)) = 2
        /\ Log(e)[2] = Log(e)[1] + 60
        /\ Len(Log(x)) = 2
        /\ Log(x)[1] = Log(e)[2]
        /\ Log(x)[2] = Log(e)[2]
        /\ clock = Log(e)[2]

\* C28: when get_api_info has returned after a rate probe, its call of
\* _respect_rate_limit included, no 60 seconds (T-60, T] hold more entries
\* of the call history of the endpoint than the rate limit it detected.
C28_AdmissionAfterProbe ==
    (op.pc = "done" /\ op.stop \in {"rejected", "timeout"}) =>
        \A T \in 0..clock :
            WindowCount(HistoryOf(_api_call_history, op.api_name), T)
                <= op.result.rate_limit

\* C29: in a sequential fetch every page request after the first has an
\* offset above the offset of the request before it.
C29_SequentialProgress ==
    SequentialMode =>
        \A i \in 2..Len(issued) : issued[i].offset > issued[i - 1].offset

====
